---------------------------- MODULE Spec2Model ----------------------------
(***************************************************************************)
(* A model of isp_workbook_parser: TableConfig, read_table, the column     *)
(* name and value sanitisers, and Parser.get_table_from_config with its    *)
(* boundary checks.                                                        *)
(*                                                                         *)
(* Text is a sequence of one-character strings, so that the regular        *)
(* expressions of sanitisers.py act on characters.  A cell value is a      *)
(* record [t, n, e, s]: t = "na" (blank / NaN / pd.NA), t = "num" (the     *)
(* number n / 10^e, kept normalised) or t = "str" (the text s).            *)
(***************************************************************************)
EXTENDS Integers, Sequences, FiniteSets, TLC

\* ------------------------------------------------------------------ text

Digit == {"0", "1", "2", "3", "4", "5", "6", "7", "8", "9"}

Upper == {"A", "B", "C", "D", "E", "F", "G", "H", "I", "J", "K", "L", "M",
          "N", "O", "P", "Q", "R", "S", "T", "U", "V", "W", "X", "Y", "Z"}

Lower == {"a", "b", "c", "d", "e", "f", "g", "h", "i", "j", "k", "l", "m",
          "n", "o", "p", "q", "r", "s", "t", "u", "v", "w", "x", "y", "z"}

\* \s of the regular expressions
WhiteSpace == {" ", "\n", "\t", "nbsp"}

\* \w of the regular expressions
WordChar == Upper \cup Lower \cup Digit \cup {"_"}

Max(S) == CHOOSE x \in S : \A y \in S : y <= x

Min(S) == CHOOSE x \in S : \A y \in S : x <= y

\* s without its first k characters
Drop(s, k) == SubSeq(s, k + 1, Len(s))

\* s[i..j] equals the text sub
MatchAt(s, i, sub) ==
    /\ i + Len(sub) - 1 <= Len(s)
    /\ \A k \in 1..Len(sub) : s[i + k - 1] = sub[k]

\* Python's "sub in s" / Series.str.contains(sub) for a literal sub
Contains(s, sub) == \E i \in 1..(Len(s) + 1) : MatchAt(s, i, sub)

\* regex $ after position k: the end of the text, or just before a final newline
AtEnd(s, k) == k = Len(s) \/ (k = Len(s) - 1 /\ s[Len(s)] = "\n")

\* ------------------------------------------------------- cell values

NA == [t |-> "na", n |-> 0, e |-> 0, s |-> <<>>]

\* the number m / 10^d, normalised: no trailing zero among the decimals
RECURSIVE Dec(_, _)
Dec(m, d) ==
    IF d > 0 /\ m % 10 = 0 THEN Dec(m \div 10, d - 1)
    ELSE [t |-> "num", n |-> m, e |-> d, s |-> <<>>]

Num(x) == Dec(x, 0)

Str(x) == [t |-> "str", n |-> 0, e |-> 0, s |-> x]

isna(v) == v.t = "na"

isstr(v) == v.t = "str"

isnum(v) == v.t = "num"


\* str(n) for an integer n >= 0
RECURSIVE IntToText(_)
IntToText(x) ==
    LET d == <<"0", "1", "2", "3", "4", "5", "6", "7", "8", "9">>[(x % 10) + 1]
    IN  IF x < 10 THEN <<d>> ELSE IntToText(x \div 10) \o <<d>>

RECURSIVE Pow10(_)
Pow10(k) == IF k = 0 THEN 1 ELSE 10 * Pow10(k - 1)

\* the decimals of a number: the last d digits of m, zero padded
RECURSIVE Decimals(_, _)
Decimals(m, d) ==
    IF d = 0 THEN <<>> ELSE Decimals(m \div 10, d - 1) \o IntToText(m % 10)

\* str(x) of a number x: "12" for an integer, "12.5" for a float
UnsignedToText(m, d) ==
    IF d = 0 THEN IntToText(m)
    ELSE IntToText(m \div Pow10(d)) \o <<".">> \o Decimals(m % Pow10(d), d)

NumToText(v) ==
    IF v.n < 0 THEN <<"-">> \o UnsignedToText(-v.n, v.e) ELSE UnsignedToText(v.n, v.e)

\* Series.astype(str) on one value
astype_str(v) ==
    IF isstr(v) THEN v.s
    ELSE IF isnum(v) THEN NumToText(v)
    ELSE <<"n", "a", "n">>

\* Series.fillna("") on one value
fillna_empty(v) == IF isna(v) THEN Str(<<>>) ELSE v

\* ------------------------------------------------- sanitisers.py (text)

RECURSIVE lstrip(_, _)
lstrip(s, chars) ==
    IF s # <<>> /\ Head(s) \in chars THEN lstrip(Tail(s), chars) ELSE s

RECURSIVE rstrip(_, _)
rstrip(s, chars) ==
    IF s # <<>> /\ s[Len(s)] \in chars
    THEN rstrip(SubSeq(s, 1, Len(s) - 1), chars)
    ELSE s

\* str.strip(chars)
strip(s, chars) == rstrip(lstrip(s, chars), chars)

\* columns.str.replace(r"\.[\.\d]+$", "", regex=True): the 'versioning' that
\* pandas' mangle_dupe_cols appends ("Generator.1" -> "Generator")
VersioningAt(s, i) ==
    /\ s[i] = "."
    /\ \E k \in (i + 1)..Len(s) :
          /\ AtEnd(s, k)
          /\ \A j \in (i + 1)..k : s[j] \in Digit \cup {"."}

remove_versioning(s) ==
    IF \E i \in 1..Len(s) : VersioningAt(s, i)
    THEN LET i == Min({j \in 1..Len(s) : VersioningAt(s, j)})
             k == Max({j \in (i + 1)..Len(s) :
                          AtEnd(s, j) /\ \A m \in (i + 1)..j : s[m] \in Digit \cup {"."}})
         IN  SubSeq(s, 1, i - 1) \o Drop(s, k)
    ELSE s

\* isp_workbook_parser.custom_string_replacements.typos_and_notes: pairs
\* <<known bad text, correction>>.  The table's file is not among the sources;
\* none of the texts of this model holds one of its entries.
typos_and_notes == <<>>

RECURSIVE ReplaceAll(_, _, _)
ReplaceAll(s, bad, good) ==
    IF s = <<>> \/ bad = <<>> THEN s
    ELSE IF MatchAt(s, 1, bad) THEN good \o ReplaceAll(Drop(s, Len(bad)), bad, good)
    ELSE <<Head(s)>> \o ReplaceAll(Tail(s), bad, good)

RECURSIVE ApplyReplacements(_, _)
ApplyReplacements(s, table) ==
    IF table = <<>> THEN s
    ELSE ApplyReplacements(ReplaceAll(s, Head(table)[1], Head(table)[2]), Tail(table))

custom_string_replacements(s) == ApplyReplacements(s, typos_and_notes)

\* series.str.replace(r"\n", " ", regex=True)
replace_series_newlines_with_whitespace(s) ==
    [i \in 1..Len(s) |-> IF s[i] = "\n" THEN " " ELSE s[i]]

\* series.str.replace(r"\s\s", " ", regex=True): one left-to-right pass over
\* non-overlapping pairs of whitespace characters
RECURSIVE remove_series_double_whitespaces(_)
remove_series_double_whitespaces(s) ==
    IF Len(s) < 2 THEN s
    ELSE IF s[1] \in WhiteSpace /\ s[2] \in WhiteSpace
         THEN <<" ">> \o remove_series_double_whitespaces(Drop(s, 2))
         ELSE <<s[1]>> \o remove_series_double_whitespaces(Tail(s))

\* series.str.replace(r"(?<![A-Z]|\^|\s|\d)\d$", "", regex=True)
ColumnFootnoteAt(s, k) ==
    /\ s[k] \in Digit
    /\ AtEnd(s, k)
    /\ (k = 1 \/ s[k - 1] \notin (Upper \cup {"^"} \cup WhiteSpace \cup Digit))

\* a footnote remover that wants a character before the digit
remove_column_name_trailing_footnotes_after_a_character(s) ==
    IF \E k \in 2..Len(s) : ColumnFootnoteAt(s, k)
    THEN LET k == CHOOSE j \in 2..Len(s) : ColumnFootnoteAt(s, j)
         IN  SubSeq(s, 1, k - 1) \o Drop(s, k)
    ELSE s

remove_column_name_trailing_footnotes(s) ==
    IF \E k \in 1..Len(s) : ColumnFootnoteAt(s, k)
    THEN LET k == CHOOSE j \in 1..Len(s) : ColumnFootnoteAt(s, j)
         IN  SubSeq(s, 1, k - 1) \o Drop(s, k)
    ELSE s

\* _column_name_sanitiser on one name, after columns.astype(str)
column_name_sanitiser_text(s) ==
    remove_column_name_trailing_footnotes(
        remove_series_double_whitespaces(
            replace_series_newlines_with_whitespace(
                strip(custom_string_replacements(remove_versioning(s)), WhiteSpace))))

\* _column_name_sanitiser on a pd.Index / pd.Series of labels (values)
column_name_sanitiser(columns) ==
    [i \in 1..Len(columns) |-> Str(column_name_sanitiser_text(astype_str(columns[i])))]

\* series.str.replace(r"\*$", "", regex=True)
remove_series_trailing_asterisks(s) ==
    IF \E k \in 1..Len(s) : s[k] = "*" /\ AtEnd(s, k)
    THEN LET k == CHOOSE j \in 1..Len(s) : s[j] = "*" /\ AtEnd(s, j)
         IN  SubSeq(s, 1, k - 1) \o Drop(s, k)
    ELSE s

\* series.str.replace(r"(?<=[^A-Z\s\d\.\_\-\#\^])\d$", "", regex=True)
SeriesFootnoteAt(s, k) ==
    /\ s[k] \in Digit
    /\ AtEnd(s, k)
    /\ k > 1
    /\ s[k - 1] \notin (Upper \cup WhiteSpace \cup Digit \cup {".", "_", "-", "#", "^"})

remove_series_trailing_footnotes(s) ==
    IF \E k \in 1..Len(s) : SeriesFootnoteAt(s, k)
    THEN LET k == CHOOSE j \in 1..Len(s) : SeriesFootnoteAt(s, j)
         IN  SubSeq(s, 1, k - 1) \o Drop(s, k)
    ELSE s

\* series.str.strip(" ")
strip_series_whitespaces(s) == strip(s, {" "})

\* series.str.replace(r"(?<=[0-9]),(?=[0-9]{1,3})", "", regex=True)
ThousandsCommaAt(s, i) ==
    /\ s[i] = ","
    /\ i > 1 /\ s[i - 1] \in Digit
    /\ i < Len(s) /\ s[i + 1] \in Digit

\* the characters of s at the indices of K, in order, from index i on
RECURSIVE SelectChars(_, _, _)
SelectChars(s, i, K) ==
    IF i > Len(s) THEN <<>>
    ELSE (IF i \in K THEN <<s[i]>> ELSE <<>>) \o SelectChars(s, i + 1, K)

remove_series_thousands_commas(s) ==
    SelectChars(s, 1, {i \in 1..Len(s) : ~ThousandsCommaAt(s, i)})

\* the last index j >= i - 1 with s[i..j] all in the class C (a greedy C*)
RECURSIVE RunEnd(_, _, _)
RunEnd(s, i, C) ==
    IF i <= Len(s) /\ s[i] \in C THEN RunEnd(s, i + 1, C) ELSE i - 1

NumberChars == Digit \cup {"."}

\* [\w\s\.\<\=\-\/\,] of the first substitution of _remove_series_notes_after_values
ParenNoteChars == WordChar \cup WhiteSpace \cup {".", "<", "=", "-", "/", ","}

\* [\w\s\.\<\=\-\(\)] of its second and third substitutions
HyphenNoteChars == WordChar \cup WhiteSpace \cup {".", "<", "=", "-", "(", ")"}

\* one greedy iteration of (\([\w\s\.\<\=\-\/\,]+\)?\s?) from index i:
\* the index of its last character, or 0 when it does not match
ParenGroupEnd(s, i) ==
    IF i <= Len(s) /\ s[i] = "(" /\ RunEnd(s, i + 1, ParenNoteChars) >= i + 1
    THEN LET c  == RunEnd(s, i + 1, ParenNoteChars)
             e1 == IF c + 1 <= Len(s) /\ s[c + 1] = ")" THEN c + 1 ELSE c
         IN  IF e1 + 1 <= Len(s) /\ s[e1 + 1] \in WhiteSpace THEN e1 + 1 ELSE e1
    ELSE 0

\* the greedy (...)+ : the end of the last iteration that matches, from index i
RECURSIVE ParenGroupsEnd(_, _)
ParenGroupsEnd(s, i) ==
    LET e == ParenGroupEnd(s, i)
    IN  IF e = 0 THEN i - 1 ELSE ParenGroupsEnd(s, e + 1)

\* r"^([0-9\.]+)\s+(?:(\([\w\s\.\<\=\-\/\,]+\)?\s?)+)" -> r"\1"
remove_parenthesised_notes(s) ==
    LET p == RunEnd(s, 1, NumberChars)
        w == RunEnd(s, p + 1, WhiteSpace)
    IN  IF p >= 1 /\ w >= p + 1 /\ ParenGroupEnd(s, w + 1) # 0
        THEN SubSeq(s, 1, p) \o Drop(s, ParenGroupsEnd(s, w + 1))
        ELSE s

\* (?![0-9]{4}\-[0-9]{2,4}): the text does not start like a financial year
FinancialYearAhead(s) ==
    /\ Len(s) >= 7
    /\ \A i \in 1..4 : s[i] \in Digit
    /\ s[5] = "-"
    /\ s[6] \in Digit /\ s[7] \in Digit

\* the second substitution without its look-ahead for a financial year
remove_hyphenated_notes_of_any_number(s) ==
    LET p == RunEnd(s, 1, NumberChars)
        h == IF p + 1 <= Len(s) /\ s[p + 1] \in WhiteSpace THEN p + 2 ELSE p + 1
    IN  IF /\ p >= 1
           /\ h <= Len(s) /\ s[h] = "-"
           /\ RunEnd(s, h + 1, HyphenNoteChars) >= h + 1
        THEN SubSeq(s, 1, p) \o Drop(s, RunEnd(s, h + 1, HyphenNoteChars))
        ELSE s

\* r"^(?![0-9]{4}\-[0-9]{2,4})([0-9\.]+)\s?(?:(\-[\w\s\.\<\=\-\(\)]+)+)" -> r"\1"
remove_hyphenated_notes(s) ==
    LET p == RunEnd(s, 1, NumberChars)
        h == IF p + 1 <= Len(s) /\ s[p + 1] \in WhiteSpace THEN p + 2 ELSE p + 1
    IN  IF /\ ~FinancialYearAhead(s)
           /\ p >= 1
           /\ h <= Len(s) /\ s[h] = "-"
           /\ RunEnd(s, h + 1, HyphenNoteChars) >= h + 1
        THEN SubSeq(s, 1, p) \o Drop(s, RunEnd(s, h + 1, HyphenNoteChars))
        ELSE s

\* r"^\-\s?(?:(\([\w\s\.\<\=\-\(\)]+)+)" -> ""
remove_leading_hyphen_notes(s) ==
    LET h == IF 2 <= Len(s) /\ s[2] \in WhiteSpace THEN 3 ELSE 2
    IN  IF /\ Len(s) >= 1 /\ s[1] = "-"
           /\ h <= Len(s) /\ s[h] = "("
           /\ RunEnd(s, h + 1, HyphenNoteChars) >= h + 1
        THEN Drop(s, RunEnd(s, h + 1, HyphenNoteChars))
        ELSE s

\* _remove_series_notes_after_values on one text
remove_series_notes_after_values(s) ==
    remove_leading_hyphen_notes(remove_hyphenated_notes(remove_parenthesised_notes(s)))

\* int(text) for a text of digits
RECURSIVE DigitsValue(_)
DigitsValue(s) ==
    IF s = <<>> THEN 0
    ELSE 10 * DigitsValue(SubSeq(s, 1, Len(s) - 1))
         + (CHOOSE d \in 0..9 : IntToText(d) = <<s[Len(s)]>>)

\* digits with at most one decimal point and at least one digit
IsDecimalText(s) ==
    /\ \A i \in 1..Len(s) : s[i] \in NumberChars
    /\ \E i \in 1..Len(s) : s[i] \in Digit
    /\ Cardinality({i \in 1..Len(s) : s[i] = "."}) <= 1

\* float(text) of such a text
DecimalValue(s) ==
    LET dots == {i \in 1..Len(s) : s[i] = "."}
        d    == IF dots = {} THEN 0 ELSE Len(s) - Max(dots)
    IN  Dec(DigitsValue(SelectChars(s, 1, {i \in 1..Len(s) : s[i] \in Digit})), d)

\* x * 10^k for a number x
TimesPow10(v, k) ==
    IF v.e >= k THEN Dec(v.n, v.e - k) ELSE Dec(v.n * Pow10(k - v.e), 0)

\* extract(val) of _extract_numeric_value_millions, val a text:
\* re.match(r"\$?\s*([\d,.]+)\s*[M]$", val)
extract_numeric_value_millions(s) ==
    LET a == IF s # <<>> /\ s[1] = "$" THEN 2 ELSE 1
        b == RunEnd(s, a, WhiteSpace) + 1
        g == RunEnd(s, b, Digit \cup {",", "."})
        m == RunEnd(s, g + 1, WhiteSpace) + 1
        num_str == SelectChars(s, b, {i \in b..g : s[i] # ","})
    IN  IF g >= b /\ m <= Len(s) /\ s[m] = "M" /\ AtEnd(s, m) /\ IsDecimalText(num_str)
        THEN TimesPow10(DecimalValue(num_str), 6)
        ELSE Str(s)

\* ------------------------------------------- the workbook and pandas

\* A sheet is a sequence of rows, a row a sequence of cells, a cell
\* [v |-> value, pct |-> its number format holds "%"].  openpyxl's max_row and
\* max_column are the sheet's dimensions.
max_row(sheet) == Len(sheet)

max_column(sheet) == IF sheet = <<>> THEN 0 ELSE Len(sheet[1])

\* sheet.cell(row, column): a cell off the populated sheet is an empty cell
SheetCell(sheet, r, c) ==
    IF r \in 1..max_row(sheet) /\ c \in 1..max_column(sheet)
    THEN sheet[r][c]
    ELSE [v |-> NA, pct |-> FALSE]

\* pandas reads None and "" alike as a missing value
EmptyForPandas(v) == isna(v) \/ v = Str(<<>>)

\* A DataFrame: its column labels and its rows, with a RangeIndex
Frame(cols, rows) == [columns |-> cols, rows |-> rows]

NoFrame == Frame(<<>>, <<>>)

\* the result of a call: a DataFrame, or the exception raised
Ok(df) == [ok |-> TRUE, kind |-> "", df |-> df]

Fail(kind) == [ok |-> FALSE, kind |-> kind, df |-> NoFrame]

\* "Unnamed: i", the label pandas gives a header cell without a value
UnnamedLabel(i) == <<"U", "n", "n", "a", "m", "e", "d", ":", " ">> \o IntToText(i)

Unnamed == <<"U", "n", "n", "a", "m", "e", "d">>

\* pd.read_excel(file, sheet_name, header, usecols="X:Y", nrows): the rows up
\* to header + nrows are read (fewer when the sheet ends before), padded to the
\* widest of them; row `header` (0-based) gives the labels, a repeated label
\* gets the suffix ".k", and the rows after it are the data.  usecols beyond
\* the width read is a ParserError; rows without any value give DataFrame().
read_excel(sheet, header, first, last, nrows) ==
    LET wanted   == header + 1 + nrows
        needed   == IF wanted < 1 THEN 1 ELSE wanted
        upto     == IF needed < max_row(sheet) THEN needed ELSE max_row(sheet)
        HasData(r) == \E c \in 1..max_column(sheet) : ~EmptyForPandas(sheet[r][c].v)
        filled   == {r \in 1..upto : HasData(r)}
        lastData == IF filled = {} THEN 0 ELSE Max(filled)
        used     == {c \in 1..max_column(sheet) :
                        \E r \in 1..lastData : ~EmptyForPandas(sheet[r][c].v)}
        width    == IF used = {} THEN 0 ELSE Max(used)
        hrow     == header + 1
        Label(c) ==
            LET v    == sheet[hrow][c].v
                seen == Cardinality({b \in 1..(c - 1) : sheet[hrow][b].v = v})
            IN  IF EmptyForPandas(v) THEN Str(UnnamedLabel(c - 1))
                ELSE IF seen = 0 THEN v
                ELSE Str(astype_str(v) \o <<".">> \o IntToText(seen))
        Value(r, c) == IF EmptyForPandas(sheet[r][c].v) THEN NA ELSE sheet[r][c].v
        n        == IF lastData - hrow < nrows THEN lastData - hrow ELSE nrows
    IN  IF lastData = 0 THEN Ok(NoFrame)
        ELSE IF nrows < 0 \/ header < 0 \/ hrow > lastData THEN Fail("ValueError")
        ELSE IF last > width \/ first < 1 THEN Fail("ParserError")
        ELSE Ok(Frame([i \in 1..(last - first + 1) |-> Label(first + i - 1)],
                      [k \in 1..n |->
                          [i \in 1..(last - first + 1) |-> Value(hrow + k, first + i - 1)]]))

\* Series.ffill(): a missing value takes the nearest value before it
RECURSIVE ffill(_)
ffill(s) ==
    IF Len(s) <= 1 THEN s
    ELSE LET f == ffill(SubSeq(s, 1, Len(s) - 1))
         IN  Append(f, IF isna(s[Len(s)]) THEN f[Len(f)] ELSE s[Len(s)])

\* DataFrame.iloc[:, i] (i counted from 1 here)
Column(df, i) == [k \in 1..Len(df.rows) |-> df.rows[k][i]]

\* df.iloc[:, i] = series
SetColumn(df, i, series) ==
    Frame(df.columns,
          [k \in 1..Len(df.rows) |-> [df.rows[k] EXCEPT ![i] = series[k]]])

\* the elements of s whose index is not in the set drop, in order
RECURSIVE DropIndices(_, _, _)
DropIndices(s, i, drop) ==
    IF i > Len(s) THEN <<>>
    ELSE (IF i \in drop THEN <<>> ELSE <<s[i]>>) \o DropIndices(s, i + 1, drop)

\* ------------------------------------------------------ read_table.py

\* A TableConfig is a record
\*   [name, sheet_name,
\*    header_rows |-> [int |-> BOOLEAN, rows |-> <<row, ...>>]   an int h is <<h>>
\*    end_row,
\*    column_range |-> [first |-> index, last |-> index]         "B:D" is 2, 4
\*    skip_rows |-> [form |-> "none" | "int" | "list" | "range", rows |-> <<...>>]
\*                                          a range {start, end} is <<start, end>>
\*    columns_with_merged_rows |-> [form |-> "none" | "str" | "list", cols |-> <<...>>]
\*    forward_fill_values |-> BOOLEAN]

\* `if table.skip_rows:` : None, 0 and [] are false
SkipRowsGiven(sr) ==
    \/ sr.form = "int" /\ sr.rows[1] # 0
    \/ sr.form = "list" /\ sr.rows # <<>>
    \/ sr.form = "range"

\* `if table.columns_with_merged_rows:` : None, "" and [] are false
MergedRowsGiven(cm) == cm.form # "none" /\ cm.cols # <<>>

\* the 0-based positions _skip_rows_in_dataframe hands to DataFrame.drop
SkipIndices(sr, last_header_row) ==
    IF sr.form = "range"
    THEN {r - (last_header_row + 1) : r \in sr.rows[1]..sr.rows[2]}
    ELSE {sr.rows[i] - last_header_row - 1 : i \in 1..Len(sr.rows)}

\* _find_data_column_index: columns are held by their index (A = 1)
find_data_column_index(column, column_range) == column - column_range.first

\* df.reset_index(drop=True).drop(index=skip_rows).reset_index(drop=True);
\* drop raises KeyError for a label that is no row of the frame
skip_rows_in_dataframe(df, config_skip_rows, last_header_row) ==
    LET skip == SkipIndices(config_skip_rows, last_header_row)
    IN  IF \E i \in skip : i \notin 0..(Len(df.rows) - 1) THEN Fail("KeyError")
        ELSE Ok(Frame(df.columns, DropIndices(df.rows, 1, {i + 1 : i \in skip})))

\* the loop of _handle_merged_rows over the column indices, from the k-th on;
\* iloc takes a negative index from the end and raises IndexError off the frame
RECURSIVE MergedRowsLoop(_, _, _)
MergedRowsLoop(df, indices, k) ==
    IF k > Len(indices) THEN Ok(df)
    ELSE LET ncols == Len(df.columns)
             index == indices[k]
             pos   == IF index < 0 THEN index + ncols + 1 ELSE index + 1
         IN  IF index >= ncols \/ index < -ncols THEN Fail("IndexError")
             ELSE MergedRowsLoop(SetColumn(df, pos, ffill(Column(df, pos))), indices, k + 1)

handle_merged_rows(df, config_cols_with_merged_rows, column_range) ==
    LET cols == config_cols_with_merged_rows.cols
        actual_col_indices ==
            [k \in 1..Len(cols) |-> find_data_column_index(cols[k], column_range)]
    IN  MergedRowsLoop(df, actual_col_indices, 1)

\* initial_header[initial_header.str.contains("Unnamed")] = pd.NA, which
\* _ffill_highest_header does in place: read_table's initial_header holds the
\* masked labels afterwards
MaskUnnamed(initial_header) ==
    [i \in 1..Len(initial_header) |->
        IF Contains(initial_header[i].s, Unnamed) THEN NA ELSE initial_header[i]]

ffill_highest_header(initial_header) ==
    LET filled == ffill(MaskUnnamed(initial_header))
    IN  [i \in 1..Len(filled) |-> fillna_empty(filled[i])]

\* the loop of _ffill_intermediate_header_row, from the n-th element on
\* (the first element is never visited)
RECURSIVE IntermediateLoop(_, _, _)
IntermediateLoop(int_header, preceding_header, n) ==
    IF n > Len(int_header) THEN int_header
    ELSE LET value           == int_header[n]
             preceding_value == preceding_header[n]
             next ==
                 IF isna(value)
                 THEN IF isna(preceding_value)
                      THEN [int_header EXCEPT ![n] = int_header[n - 1]]
                      ELSE int_header
                 ELSE IF ~isna(preceding_value) /\ value = preceding_value
                      THEN [int_header EXCEPT ![n] = NA]
                      ELSE int_header
         IN  IntermediateLoop(next, preceding_header, n + 1)

ffill_intermediate_header_row(intermediate_header, preceding_header) ==
    LET int_header == IntermediateLoop(intermediate_header, preceding_header, 2)
    IN  column_name_sanitiser([i \in 1..Len(int_header) |-> fillna_empty(int_header[i])])

process_last_header_row(last_header, preceding_header) ==
    LET last == column_name_sanitiser(
                    [i \in 1..Len(last_header) |-> fillna_empty(last_header[i])])
    IN  [i \in 1..Len(last) |-> IF last[i] # preceding_header[i] THEN last[i] ELSE Str(<<>>)]

\* DataFrame.ffill(axis=1)
ffill_rows(df) == Frame(df.columns, [k \in 1..Len(df.rows) |-> ffill(df.rows[k])])

\* a build that never fills along the rows
build_cleaned_dataframe_without_fill(df_initial, header_rows_in_table, new_headers, forward_fill_values) ==
    Frame(new_headers, SubSeq(df_initial.rows, header_rows_in_table + 1, Len(df_initial.rows)))

\* a build that keeps the header rows among the data rows
build_cleaned_dataframe_keeping_header_rows(df_initial, header_rows_in_table, new_headers, forward_fill_values) ==
    LET df_cleaned == Frame(new_headers, df_initial.rows)
    IN  IF forward_fill_values THEN ffill_rows(df_cleaned) ELSE df_cleaned

build_cleaned_dataframe(df_initial, header_rows_in_table, new_headers, forward_fill_values) ==
    LET df_cleaned ==
            Frame(new_headers, SubSeq(df_initial.rows, header_rows_in_table + 1,
                                      Len(df_initial.rows)))
    IN  IF forward_fill_values THEN ffill_rows(df_cleaned) ELSE df_cleaned

\* filled_headers of read_table: the intermediate header rows i..(count - 1),
\* each filled against the row before it, then the processed last header row
FilledHeaders(df_initial, masked_header, ffilled_initial_header, header_rows_in_table) ==
    LET Intermediate(i) ==
            ffill_intermediate_header_row(
                df_initial.rows[i],
                IF i = 1 THEN masked_header ELSE df_initial.rows[i - 1])
        inter == [i \in 1..(header_rows_in_table - 1) |-> Intermediate(i)]
        last  == process_last_header_row(
                     df_initial.rows[header_rows_in_table],
                     IF header_rows_in_table = 1 THEN ffilled_initial_header
                     ELSE inter[header_rows_in_table - 1])
    IN  Append(inter, last)

\* series[series != ""] = "_" + series[series != ""], then
\* ffilled_initial_header.str.cat(filled_headers)
RECURSIVE CatHeaders(_, _)
CatHeaders(name, fragments) ==
    IF fragments = <<>> THEN name
    ELSE CatHeaders(name \o (IF Head(fragments) # <<>>
                             THEN <<"_">> \o Head(fragments) ELSE <<>>),
                    Tail(fragments))

MergedHeaders(ffilled_initial_header, filled_headers) ==
    [c \in 1..Len(ffilled_initial_header) |->
        Str(CatHeaders(ffilled_initial_header[c].s,
                       [k \in 1..Len(filled_headers) |-> filled_headers[k][c].s]))]

\* sorted(header_rows) == header_rows and set(np.diff(header_rows)) == {1}
HeaderRowsAsserted(rows) ==
    /\ \A i \in 1..(Len(rows) - 1) : rows[i] <= rows[i + 1]
    /\ Len(rows) >= 2
    /\ \A i \in 1..(Len(rows) - 1) : rows[i + 1] - rows[i] = 1

\* the closing steps of both branches: skip_rows, then columns_with_merged_rows
SkipThenMerge(df, table, last_header_row) ==
    LET skipped == IF SkipRowsGiven(table.skip_rows)
                   THEN skip_rows_in_dataframe(df, table.skip_rows, last_header_row)
                   ELSE Ok(df)
    IN  IF ~skipped.ok THEN skipped
        ELSE IF MergedRowsGiven(table.columns_with_merged_rows)
             THEN handle_merged_rows(skipped.df, table.columns_with_merged_rows,
                                     table.column_range)
             ELSE skipped

read_table_single(sheet, table) ==
    LET h    == table.header_rows.rows[1]
        read == read_excel(sheet, h - 1, table.column_range.first,
                           table.column_range.last, table.end_row - h)
    IN  IF ~read.ok THEN read
        ELSE SkipThenMerge(Frame(column_name_sanitiser(read.df.columns), read.df.rows),
                           table, h)

read_table_multi(sheet, table) ==
    LET rows == table.header_rows.rows
        read == read_excel(sheet, rows[1] - 1, table.column_range.first,
                           table.column_range.last, table.end_row - rows[1])
        df_initial == Frame(column_name_sanitiser(read.df.columns), read.df.rows)
        header_rows_in_table   == rows[Len(rows)] - rows[1]
        initial_header         == df_initial.columns
        ffilled_initial_header == ffill_highest_header(initial_header)
        filled_headers ==
            FilledHeaders(df_initial, MaskUnnamed(initial_header),
                          ffilled_initial_header, header_rows_in_table)
        merged_headers == MergedHeaders(ffilled_initial_header, filled_headers)
    IN  IF ~read.ok THEN read
        ELSE IF ~HeaderRowsAsserted(rows) THEN Fail("AssertionError")
        ELSE IF Len(df_initial.rows) < header_rows_in_table THEN Fail("IndexError")
        ELSE SkipThenMerge(
                 build_cleaned_dataframe(df_initial, header_rows_in_table, merged_headers,
                                         table.forward_fill_values),
                 table, rows[Len(rows)])

read_table(sheet, table) ==
    IF table.header_rows.int
    THEN read_table_single(sheet, table)
    ELSE read_table_multi(sheet, table)

\* --------------------------------------- sanitisers.py (the DataFrame)

\* df.replace("-", pd.NA, regex=False)
replace_dataframe_hyphens_with_na(df) ==
    Frame(df.columns,
          [k \in 1..Len(df.rows) |->
              [i \in 1..Len(df.rows[k]) |->
                  IF df.rows[k][i] = Str(<<"-">>) THEN NA ELSE df.rows[k][i]]])

\* the texts pd.to_numeric parses: a decimal number, signed or not, with
\* blanks around it
IsNumericText(s) ==
    LET b == strip(s, {" ", "\t", "\n"})
        u == IF b # <<>> /\ b[1] \in {"-", "+"} THEN Tail(b) ELSE b
    IN  IsDecimalText(u)

NumericValue(s) ==
    LET b == strip(s, {" ", "\t", "\n"})
        u == IF b # <<>> /\ b[1] \in {"-", "+"} THEN Tail(b) ELSE b
        x == DecimalValue(u)
    IN  IF b[1] = "-" THEN Dec(-x.n, x.e) ELSE x

\* pd.to_numeric(series) raises unless every value is a number, missing, or a
\* text that parses
CanCast(series) ==
    \A k \in 1..Len(series) : isstr(series[k]) => IsNumericText(series[k].s)

to_numeric(series) ==
    [k \in 1..Len(series) |->
        IF isstr(series[k]) THEN NumericValue(series[k].s) ELSE series[k]]

\* the nine series functions of _values_casting_and_sanitisation, in order, on
\* one text value
SanitiseText(s) ==
    extract_numeric_value_millions(
      remove_series_trailing_footnotes(
        remove_series_notes_after_values(
          remove_series_thousands_commas(
            remove_series_trailing_asterisks(
              strip_series_whitespaces(
                custom_string_replacements(
                  remove_series_double_whitespaces(
                    replace_series_newlines_with_whitespace(s)))))))))

\* one column sanitised after a failed cast and never cast again
CastColumnWithoutRetry(series) ==
    IF CanCast(series) THEN to_numeric(series)
    ELSE [k \in 1..Len(series) |->
            IF isstr(series[k]) THEN SanitiseText(series[k].s) ELSE series[k]]

\* one column of _values_casting_and_sanitisation: cast, or sanitise its text
\* values and cast again, or keep the sanitised values
CastColumn(series) ==
    IF CanCast(series) THEN to_numeric(series)
    ELSE LET cleaned == [k \in 1..Len(series) |->
                            IF isstr(series[k]) THEN SanitiseText(series[k].s)
                            ELSE series[k]]
         IN  IF CanCast(cleaned) THEN to_numeric(cleaned) ELSE cleaned

values_casting_and_sanitisation(df) ==
    LET d == replace_dataframe_hyphens_with_na(df)
        cast == [i \in 1..Len(d.columns) |-> CastColumn(Column(d, i))]
    IN  Frame(d.columns,
              [k \in 1..Len(d.rows) |-> [i \in 1..Len(d.columns) |-> cast[i][k]]])

\* ------------------------------------------------------------ parser.py

NoError == [type |-> "none", check |-> "", name |-> "", detail |-> <<>>, message |-> <<>>]

\* the f-string of each error_message, as the pieces it is put together from
error_message(check, name, detail) ==
    CASE check = "data_after_end_row" ->
            <<"There is data in the row after the defined table end for table ", name, ".">>
      [] check = "data_above_first_header_row" ->
            <<"There is data or a header above the first header row for table ", name, ".">>
      [] check = "first_column_has_na" ->
            <<"The first column of the table ", name,
              " contains na values indicating the table end row is incorrectly specified.">>
      [] check = "first_column_has_notes" ->
            <<"The first column of the table ", name, " contains the sub string '", detail, "'.">>
      [] check = "last_column_empty" ->
            <<"The last column of the table ", name, " is empty.">>
      [] check = "duplicate_column_names" ->
            <<"There are duplicate column names in the table ", name, ".">>
      [] check = "data_right_of_last_column" ->
            <<"There is data in the column adjacent to the last column in the table ", name, ".">>
      [] check = "data_left_of_first_column" ->
            <<"There is data in the column adjacent to the first column in the table ", name, ".">>
      [] check = "first_header_row_not_on_sheet" ->
            <<"The first header row for table ", name, " is not within the excel sheet.">>
      [] check = "end_row_not_on_sheet" ->
            <<"The end_row for table ", name, " is not within the excel sheet.">>
      [] check = "first_column_not_on_sheet" ->
            <<"The first column for table ", name, " is not within the excel sheet.">>
      [] check = "last_column_not_on_sheet" ->
            <<"The last column for table ", name, " is not within the excel sheet.">>

\* raise TableConfigError(error_message): the error is held with the check
\* that failed, the table name it carries, the text it quotes and its message
TableConfigError(check, name, detail) ==
    [type |-> "TableConfigError", check |-> check, name |-> name, detail |-> detail,
     message |-> error_message(check, name, detail)]

\* any other exception, by its class
Exception(kind) ==
    [type |-> kind, check |-> "", name |-> "", detail |-> <<>>, message |-> <<>>]

first_header_row(table_config) == table_config.header_rows.rows[1]

last_header_row(table_config) ==
    table_config.header_rows.rows[Len(table_config.header_rows.rows)]

\* _check_if_header_row_and_end_row_are_on_sheet
check_if_header_row_and_end_row_are_on_sheet(sheet, table_config) ==
    IF first_header_row(table_config) > max_row(sheet)
    THEN TableConfigError("first_header_row_not_on_sheet", table_config.name, <<>>)
    ELSE IF table_config.end_row > max_row(sheet)
    THEN TableConfigError("end_row_not_on_sheet", table_config.name, <<>>)
    ELSE NoError

\* _check_if_start_and_end_column_are_on_sheet
check_if_start_and_end_column_are_on_sheet(sheet, table_config) ==
    IF table_config.column_range.first > max_column(sheet)
    THEN TableConfigError("first_column_not_on_sheet", table_config.name, <<>>)
    ELSE IF table_config.column_range.last > max_column(sheet)
    THEN TableConfigError("last_column_not_on_sheet", table_config.name, <<>>)
    ELSE NoError

\* value is not None and value not in ["", " ", " "]
ProbeCellHasData(v) == ~isna(v) /\ v \notin {Str(<<>>), Str(<<" ">>), Str(<<"nbsp">>)}

\* _check_no_data_above_first_header_row; openpyxl refuses row 0
check_no_data_above_first_header_row(sheet, table_config) ==
    LET second_col_index == table_config.column_range.first + 1
        row == first_header_row(table_config) - 1
    IN  IF row < 1 THEN Exception("ValueError")
        ELSE IF ProbeCellHasData(SheetCell(sheet, row, second_col_index).v)
        THEN TableConfigError("data_above_first_header_row", table_config.name, <<>>)
        ELSE NoError

\* the end-row probe wording its error as the probe above the header does
check_data_ends_where_expected_worded_as_data_above(sheet, table_config) ==
    LET second_col_index == table_config.column_range.first + 1
    IN  IF ProbeCellHasData(SheetCell(sheet, table_config.end_row + 1, second_col_index).v)
        THEN TableConfigError("data_above_first_header_row", table_config.name, <<>>)
        ELSE NoError

\* the end-row probe looking below the first column of the range
check_data_ends_where_expected_below_first_column(sheet, table_config) ==
    IF ProbeCellHasData(SheetCell(sheet, table_config.end_row + 1,
                                  table_config.column_range.first).v)
    THEN TableConfigError("data_after_end_row", table_config.name, <<>>)
    ELSE NoError

\* _check_data_ends_where_expected
check_data_ends_where_expected(sheet, table_config) ==
    LET second_col_index == table_config.column_range.first + 1
    IN  IF ProbeCellHasData(SheetCell(sheet, table_config.end_row + 1, second_col_index).v)
        THEN TableConfigError("data_after_end_row", table_config.name, <<>>)
        ELSE NoError

\* the over-run check looking at the last row of the first column only
check_for_over_run_into_another_table_in_last_row(data, name) ==
    IF data.columns = <<>> THEN Exception("IndexError")
    ELSE IF data.rows # <<>> /\ isna(data.rows[Len(data.rows)][1])
    THEN TableConfigError("first_column_has_na", name, <<>>)
    ELSE NoError

\* _check_for_over_run_into_another_table
check_for_over_run_into_another_table(data, name) ==
    IF data.columns = <<>> THEN Exception("IndexError")
    ELSE IF \E k \in 1..Len(data.rows) : isna(data.rows[k][1])
    THEN TableConfigError("first_column_has_na", name, <<>>)
    ELSE NoError

\* the sub strings of notes only
notes_sub_strings_without_sources ==
    << <<"N", "o", "t", "e", "s", ":">>, <<"N", "o", "t", "e", ":">> >>

notes_sub_strings ==
    << <<"N", "o", "t", "e", "s", ":">>, <<"N", "o", "t", "e", ":">>,
       <<"S", "o", "u", "r", "c", "e", ":">>, <<"S", "o", "u", "r", "c", "e", "s", ":">> >>

\* _check_for_over_run_into_notes: the first sub string found is reported
check_for_over_run_into_notes(data, name) ==
    LET Found(j) == \E k \in 1..Len(data.rows) :
                        Contains(astype_str(data.rows[k][1]), notes_sub_strings[j])
        found == {j \in 1..Len(notes_sub_strings) : Found(j)}
    IN  IF found = {} THEN NoError
        ELSE TableConfigError("first_column_has_notes", name, notes_sub_strings[Min(found)])

\* _check_last_column_isnt_empty: "Unnamed" in data.columns[-1]
check_last_column_isnt_empty(data, name) ==
    IF data.columns = <<>> THEN Exception("IndexError")
    ELSE IF Contains(data.columns[Len(data.columns)].s, Unnamed)
    THEN TableConfigError("last_column_empty", name, <<>>)
    ELSE NoError

\* _check_columns_unique
check_columns_unique(data, name) ==
    IF \E i, j \in 1..Len(data.columns) : i # j /\ data.columns[i] = data.columns[j]
    THEN TableConfigError("duplicate_column_names", name, <<>>)
    ELSE NoError

\* read of the single column next to the table that both probes make: the
\* ParserError of a column beyond the sheet's width is swallowed, any other
\* exception of the read propagates
ProbeRead(sheet, start_row, end_row, col) ==
    read_excel(sheet, start_row - 1, col, col, end_row - start_row)

\* _check_for_missed_column_on_right_hand_side_of_table: a backtick, a
\* non-breaking space and an empty text count as no data (the backtick is
\* the character "backtick" of a text here, as "nbsp" is the non-breaking space)
check_for_missed_column_on_right_hand_side_of_table(sheet, start_row, end_row, column_range, name) ==
    LET read == ProbeRead(sheet, start_row, end_row, column_range.last + 1)
        Blank(v) == isna(v) \/ v \in {Str(<<"backtick">>), Str(<<"nbsp">>), Str(<<>>)}
    IN  IF ~read.ok
        THEN IF read.kind = "ParserError" THEN NoError ELSE Exception(read.kind)
        ELSE IF read.df.columns = <<>> THEN Exception("IndexError")
        ELSE IF \E k \in 1..Len(read.df.rows) : ~Blank(read.df.rows[k][1])
        THEN TableConfigError("data_right_of_last_column", name, <<>>)
        ELSE NoError

DO_NOT_DELETE ==
    <<"D", "O", " ", "N", "O", "T", " ", "D", "E", "L", "E", "T", "E", " ",
      "T", "H", "I", "S", " ", "C", "O", "L", "U", "M", "N">>

\* the probe on the left with no exemption for a column headed by the
\* placeholder
check_for_missed_column_on_left_hand_side_of_table_without_placeholder(sheet, start_row, end_row, column_range, name) ==
    LET col  == column_range.first - 1
        read == ProbeRead(sheet, start_row, end_row, col)
    IN  IF col < 1 THEN Exception("ValueError")
        ELSE IF ~read.ok
        THEN IF read.kind = "ParserError" THEN NoError ELSE Exception(read.kind)
        ELSE IF read.df.columns = <<>> THEN Exception("IndexError")
        ELSE IF \A k \in 1..Len(read.df.rows) : isna(read.df.rows[k][1]) THEN NoError
        ELSE IF column_range.first = 2 THEN NoError
        ELSE TableConfigError("data_left_of_first_column", name, <<>>)

\* _check_for_missed_column_on_left_hand_side_of_table: get_column_letter(0)
\* is a ValueError; a table starting in column B is never reported
check_for_missed_column_on_left_hand_side_of_table(sheet, start_row, end_row, column_range, name) ==
    LET col  == column_range.first - 1
        read == ProbeRead(sheet, start_row, end_row, col)
    IN  IF col < 1 THEN Exception("ValueError")
        ELSE IF ~read.ok
        THEN IF read.kind = "ParserError" THEN NoError ELSE Exception(read.kind)
        ELSE IF read.df.columns = <<>> THEN Exception("IndexError")
        ELSE IF \A k \in 1..Len(read.df.rows) : isna(read.df.rows[k][1]) THEN NoError
        ELSE IF Contains(astype_str(read.df.columns[1]), DO_NOT_DELETE)
                \/ column_range.first = 2
        THEN NoError
        ELSE TableConfigError("data_left_of_first_column", name, <<>>)

\* x * 100 in pandas: a number is scaled, a missing value stays missing, a
\* text is repeated
Times100(v) ==
    IF isnum(v) THEN Dec(v.n * 100, v.e)
    ELSE IF isstr(v) THEN Str([i \in 1..(100 * Len(v.s)) |-> v.s[((i - 1) % Len(v.s)) + 1]])
    ELSE v

\* a postprocessor that forgets the rows the config skips
PercentageSkipsNothing(sr, row) == FALSE

\* `if sr := table_config.skip_rows:` and the two isinstance tests on it: the
\* cell's row is one the config skips (a {start, end} mapping is neither a
\* list nor an int)
PercentageSkips(sr, row) ==
    /\ SkipRowsGiven(sr)
    /\ \/ sr.form = "list" /\ \E i \in 1..Len(sr.rows) : sr.rows[i] = row
       \/ sr.form = "int" /\ sr.rows[1] = row

\* the inner loop of _postprocess_percentage_columns_between_0_and_100 over
\* the cells of sheet column c from sheet row r on: the (row, column)
\* positions in the data, 0-based, of the cells to scale
RECURSIVE PercentageCells(_, _, _, _, _, _)
PercentageCells(sheet, table_config, min_row, c, r, skipped_rows) ==
    IF r > table_config.end_row THEN <<>>
    ELSE IF PercentageSkips(table_config.skip_rows, r)
    THEN PercentageCells(sheet, table_config, min_row, c, r + 1, skipped_rows + 1)
    ELSE LET cell == SheetCell(sheet, r, c)
             here == IF isnum(cell.v) /\ cell.pct
                     THEN << <<r - min_row - skipped_rows,
                               find_data_column_index(c, table_config.column_range)>> >>
                     ELSE <<>>
         IN  here \o PercentageCells(sheet, table_config, min_row, c, r + 1, skipped_rows)

\* data.iloc[row, col] *= 100 for each position of cells from the k-th on
RECURSIVE ScaleCells(_, _, _)
ScaleCells(data, cells, k) ==
    IF k > Len(cells) THEN Ok(data)
    ELSE LET row == cells[k][1]
             col == cells[k][2]
         IN  IF row >= Len(data.rows) \/ col >= Len(data.columns) THEN Fail("IndexError")
             ELSE ScaleCells(
                    Frame(data.columns,
                          [data.rows EXCEPT ![row + 1][col + 1] = Times100(@)]),
                    cells, k + 1)

\* data.iloc[:, col] *= 100
ScaleColumn(data, col) ==
    IF col >= Len(data.columns) THEN Fail("IndexError")
    ELSE Ok(SetColumn(data, col + 1,
                      [k \in 1..Len(data.rows) |-> Times100(data.rows[k][col + 1])]))

\* the columns of the table from sheet column c on: a column whose every
\* cell down to end_row was collected is scaled whole, otherwise its
\* collected cells are; set().pop() on a table without rows is a KeyError
RECURSIVE PercentageColumns(_, _, _, _, _)
PercentageColumns(sheet, data, table_config, min_row, c) ==
    IF c > table_config.column_range.last THEN Ok(data)
    ELSE LET percentage_cells == PercentageCells(sheet, table_config, min_row, c, min_row, 0)
             whole  == Len(percentage_cells) = table_config.end_row - min_row + 1
             scaled == IF whole
                       THEN ScaleColumn(data, find_data_column_index(c, table_config.column_range))
                       ELSE ScaleCells(data, percentage_cells, 1)
         IN  IF whole /\ percentage_cells = <<>> THEN Fail("KeyError")
             ELSE IF ~scaled.ok THEN scaled
             ELSE PercentageColumns(sheet, scaled.df, table_config, min_row, c + 1)

postprocess_percentage_columns_between_0_and_100(sheet, data, table_config) ==
    PercentageColumns(sheet, data, table_config, last_header_row(table_config) + 1,
                      table_config.column_range.first)

\* _check_table: the checks in the order they are made; the first that
\* raises ends the call
\* _check_table probing the column on the right from the first header row on
CheckTableCallsWithRightProbeFromFirstHeaderRow(sheet, data, table_config) ==
    LET start_row == first_header_row(table_config)
    IN  <<
            check_no_data_above_first_header_row(sheet, table_config),
            check_data_ends_where_expected(sheet, table_config),
            check_for_missed_column_on_right_hand_side_of_table(
                sheet, start_row, table_config.end_row,
                table_config.column_range, table_config.name),
            check_for_missed_column_on_left_hand_side_of_table(
                sheet, start_row, table_config.end_row,
                table_config.column_range, table_config.name),
            check_last_column_isnt_empty(data, table_config.name),
            check_for_over_run_into_another_table(data, table_config.name),
            check_for_over_run_into_notes(data, table_config.name) >>

CheckTableCalls(sheet, data, table_config) ==
    LET start_row == first_header_row(table_config)
    IN  <<
            check_no_data_above_first_header_row(sheet, table_config),
            check_data_ends_where_expected(sheet, table_config),
            check_for_missed_column_on_right_hand_side_of_table(
                sheet, last_header_row(table_config), table_config.end_row,
                table_config.column_range, table_config.name),
            check_for_missed_column_on_left_hand_side_of_table(
                sheet, start_row, table_config.end_row,
                table_config.column_range, table_config.name),
            check_last_column_isnt_empty(data, table_config.name),
            check_for_over_run_into_another_table(data, table_config.name),
            check_for_over_run_into_notes(data, table_config.name) >>

\* a _check_table that makes every check and raises the last that failed
check_table_raising_the_last_failure(sheet, data, table_config) ==
    LET checks  == CheckTableCalls(sheet, data, table_config)
        raising == {j \in 1..Len(checks) : checks[j] # NoError}
    IN  IF raising = {} THEN NoError ELSE checks[Max(raising)]

check_table(sheet, data, table_config) ==
    LET checks  == CheckTableCalls(sheet, data, table_config)
        raising == {j \in 1..Len(checks) : checks[j] # NoError}
    IN  IF raising = {} THEN NoError ELSE checks[Min(raising)]

\* the checks _check_table has called when it returns or raises
ChecksOfCheckTable ==
    <<"check_no_data_above_first_header_row", "check_data_ends_where_expected",
      "check_for_missed_column_on_right_hand_side_of_table",
      "check_for_missed_column_on_left_hand_side_of_table",
      "check_last_column_isnt_empty", "check_for_over_run_into_another_table",
      "check_for_over_run_into_notes">>

ChecksMade(sheet, data, table_config) ==
    LET checks  == CheckTableCalls(sheet, data, table_config)
        raising == {j \in 1..Len(checks) : checks[j] # NoError}
    IN  IF raising = {} THEN ChecksOfCheckTable
        ELSE SubSeq(ChecksOfCheckTable, 1, Min(raising))

\* --------------------------------------------------------- config_model.py

\* TableConfig(...): pydantic takes skip_rows as None, an int or a list of
\* ints and nothing else
TableConfigValid(args) == args.skip_rows.form \in {"none", "int", "list"}

\* ------------------------------------------------------- the state machine

MaxCalls == 2

VARIABLES
    sheet,          \* the sheet of the workbook the Parser has open
    table_config,   \* the arguments of TableConfig(...), then the TableConfig
    config_checks,  \* the flag of the call of get_table_from_config in progress
    pc,             \* where the program is
    data,           \* the local `data` of get_table_from_config
    error,          \* the exception raised last
    started,        \* the steps of the call in progress, in the order they began
    calls,          \* how many calls of get_table_from_config were made
    returned,       \* per value of config_checks, how its last call ended
    text,           \* a text value handed to the sanitisers on its own
    results,        \* what the sanitisers made of it, pass after pass; what the
                    \* last call of a method of the Parser gave
    file,           \* Parser.file: the sheets of the workbook, in their order
    config_dict,    \* the TableConfigs of the YAML file in the config directory
    table_configs,  \* Parser.table_configs
    table_names_by_sheet,   \* Parser.table_names_by_sheet
    directory,      \* the directory given to save_tables
    request         \* the method of the Parser that is running, and its arguments

parservars ==
    <<file, config_dict, table_configs, table_names_by_sheet, directory, request>>

vars ==
    <<sheet, table_config, config_checks, pc, data, error, started, calls, returned,
      text, results, parservars>>

\* no Parser has been constructed
NoParser ==
    /\ file = <<>>
    /\ config_dict = <<>>
    /\ table_configs = <<>>
    /\ table_names_by_sheet = <<>>
    /\ directory = [is_dir |-> TRUE, files |-> {}]
    /\ request = [by |-> "none"]

NotCalled == [status |-> "none", df |-> NoFrame, error |-> NoError]

Returned(df) == [status |-> "table", df |-> df, error |-> NoError]

Raised(e) == [status |-> "raised", df |-> NoFrame, error |-> e]

\* an exception leaves get_table_from_config
Raise(e) ==
    /\ pc' = "raised"
    /\ error' = e
    /\ returned' = [returned EXCEPT ![config_checks] = Raised(e)]

\* the step ends without an exception
Goto(next) ==
    /\ pc' = next
    /\ UNCHANGED <<error, returned>>

\* TableConfig(name=..., ...)
Construct ==
    /\ pc = "new"
    /\ IF TableConfigValid(table_config)
       THEN pc' = "idle" /\ error' = NoError
       ELSE pc' = "invalid" /\ error' = Exception("ValidationError")
    /\ UNCHANGED <<parservars, text, results, sheet, table_config, config_checks, data, started, calls, returned>>

\* a call that starts reading whatever the flag
CallWithoutPreflight(c) ==
    /\ pc \in {"idle", "done", "raised"}
    /\ calls < MaxCalls
    /\ calls' = calls + 1
    /\ config_checks' = c
    /\ data' = NoFrame
    /\ error' = NoError
    /\ started' = <<>>
    /\ pc' = "read"
    /\ UNCHANGED <<parservars, text, results, sheet, table_config, returned>>

\* a call that makes the extent checks whatever the flag
CallWithPreflight(c) ==
    /\ pc \in {"idle", "done", "raised"}
    /\ calls < MaxCalls
    /\ calls' = calls + 1
    /\ config_checks' = c
    /\ data' = NoFrame
    /\ error' = NoError
    /\ started' = <<>>
    /\ pc' = "check_rows"
    /\ UNCHANGED <<parservars, text, results, sheet, table_config, returned>>

\* get_table_from_config(table_config, config_checks = c) is called
Call(c) ==
    /\ pc \in {"idle", "done", "raised"}
    /\ calls < MaxCalls
    /\ calls' = calls + 1
    /\ config_checks' = c
    /\ data' = NoFrame
    /\ error' = NoError
    /\ started' = <<>>
    /\ pc' = IF c THEN "check_rows" ELSE "read"
    /\ UNCHANGED <<parservars, text, results, sheet, table_config, returned>>

CheckRowsOnSheet ==
    /\ pc = "check_rows"
    /\ started' = Append(started, "check_if_header_row_and_end_row_are_on_sheet")
    /\ LET e == check_if_header_row_and_end_row_are_on_sheet(sheet, table_config)
       IN  IF e = NoError THEN Goto("check_cols") ELSE Raise(e)
    /\ UNCHANGED <<parservars, text, results, sheet, table_config, config_checks, data, calls>>

CheckColumnsOnSheet ==
    /\ pc = "check_cols"
    /\ started' = Append(started, "check_if_start_and_end_column_are_on_sheet")
    /\ LET e == check_if_start_and_end_column_are_on_sheet(sheet, table_config)
       IN  IF e = NoError THEN Goto("read") ELSE Raise(e)
    /\ UNCHANGED <<parservars, text, results, sheet, table_config, config_checks, data, calls>>

\* a read that uses up the skip_rows of the config it is given
ReadTableUsingUpSkipRows ==
    /\ pc = "read"
    /\ started' = Append(started, "read_table")
    /\ LET read == read_table(sheet, table_config)
       IN  IF read.ok THEN data' = read.df /\ Goto("unique")
           ELSE data' = data /\ Raise(Exception(read.kind))
    /\ table_config' = [table_config EXCEPT !.skip_rows = [form |-> "none", rows |-> <<>>]]
    /\ UNCHANGED <<parservars, text, results, sheet, config_checks, calls>>

ReadTable ==
    /\ pc = "read"
    /\ started' = Append(started, "read_table")
    /\ LET read == read_table(sheet, table_config)
       IN  IF read.ok THEN data' = read.df /\ Goto("unique")
           ELSE data' = data /\ Raise(Exception(read.kind))
    /\ UNCHANGED <<parservars, text, results, sheet, table_config, config_checks, calls>>

\* the check of the column names made only when config_checks is set
CheckColumnsUniqueOnlyWithChecks ==
    /\ pc = "unique"
    /\ started' = Append(started, "check_columns_unique")
    /\ LET e == IF config_checks THEN check_columns_unique(data, table_config.name)
                ELSE NoError
       IN  IF e = NoError THEN Goto("sanitise") ELSE Raise(e)
    /\ UNCHANGED <<parservars, text, results, sheet, table_config, config_checks, data, calls>>

CheckColumnsUnique ==
    /\ pc = "unique"
    /\ started' = Append(started, "check_columns_unique")
    /\ LET e == check_columns_unique(data, table_config.name)
       IN  IF e = NoError THEN Goto("sanitise") ELSE Raise(e)
    /\ UNCHANGED <<parservars, text, results, sheet, table_config, config_checks, data, calls>>

Sanitise ==
    /\ pc = "sanitise"
    /\ started' = Append(started, "values_casting_and_sanitisation")
    /\ data' = values_casting_and_sanitisation(data)
    /\ Goto("percent")
    /\ UNCHANGED <<parservars, text, results, sheet, table_config, config_checks, calls>>

\* a postprocessor that only runs under config_checks
PercentagesOnlyWithChecks ==
    /\ pc = "percent"
    /\ started' = Append(started, "postprocess_percentage_columns_between_0_and_100")
    /\ LET scaled == IF config_checks
                     THEN postprocess_percentage_columns_between_0_and_100(sheet, data, table_config)
                     ELSE Ok(data)
       IN  IF scaled.ok
           THEN data' = scaled.df /\ Goto(IF config_checks THEN "check_table" ELSE "return")
           ELSE data' = data /\ Raise(Exception(scaled.kind))
    /\ UNCHANGED <<parservars, text, results, sheet, table_config, config_checks, calls>>

Percentages ==
    /\ pc = "percent"
    /\ started' = Append(started, "postprocess_percentage_columns_between_0_and_100")
    /\ LET scaled == postprocess_percentage_columns_between_0_and_100(sheet, data, table_config)
       IN  IF scaled.ok
           THEN data' = scaled.df /\ Goto(IF config_checks THEN "check_table" ELSE "return")
           ELSE data' = data /\ Raise(Exception(scaled.kind))
    /\ UNCHANGED <<parservars, text, results, sheet, table_config, config_checks, calls>>

CheckTable ==
    /\ pc = "check_table"
    /\ started' = Append(started, "check_table") \o ChecksMade(sheet, data, table_config)
    /\ LET e == check_table(sheet, data, table_config)
       IN  IF e = NoError THEN Goto("return") ELSE Raise(e)
    /\ UNCHANGED <<parservars, text, results, sheet, table_config, config_checks, data, calls>>

\* return data
Return ==
    /\ pc = "return"
    /\ pc' = "done"
    /\ returned' = [returned EXCEPT ![config_checks] = Returned(data)]
    /\ UNCHANGED <<parservars, text, results, sheet, table_config, config_checks, data, error, started, calls>>

\* ---------------------------------------------- workbooks and configs

Blank == [v |-> NA, pct |-> FALSE]

Cell(v) == [v |-> v, pct |-> FALSE]

\* a cell whose number format holds "%"
Percent(v) == [v |-> v, pct |-> TRUE]

Text(s) == Cell(Str(s))

\* a sheet of the columns A..E: the block holds the columns B..D row by row,
\* left and right the columns A and E
MakeSheet(block, left, right) ==
    [r \in 1..Len(block) |-> <<left[r]>> \o block[r] \o <<right[r]>>]

BlankColumn(n) == [r \in 1..n |-> Blank]

BlankRow == <<Blank, Blank, Blank>>

\* the data row of a kind at sheet row r: the text of column B and the
\* numbers of columns C and D tell the sheet row
DataRow(kind, r) ==
    LET label == Text(<< <<"P", "Q", "R", "S">>[r - 4] >>)
    IN  CASE kind = "pct_num"    -> <<label, Percent(Dec(r, 1)), Cell(Num(20 + r))>>
          [] kind = "num_pct"    -> <<label, Cell(Num(r)), Percent(Dec(10 + r, 2))>>
          [] kind = "num_num"    -> <<label, Cell(Num(r)), Cell(Num(20 + r))>>
          [] kind = "num_gap"    -> <<label, Cell(Num(r)), Blank>>
          [] kind = "gap_num"    -> <<label, Blank, Cell(Num(20 + r))>>
          [] kind = "lead_gap"   -> <<Blank, Cell(Num(r)), Blank>>
          [] kind = "label_only" -> <<label, Blank, Blank>>
          [] kind = "notes"      -> <<Text(<<"N", "o", "t", "e", ":", " ", "x">>), Blank, Blank>>
          [] kind = "sources"    ->
                <<Text(<<"S", "o", "u", "r", "c", "e", "s", ":", " ", "y">>), Blank, Blank>>
          [] kind = "hyphen"     -> <<Text(<<"-">>), Cell(Num(r)), Cell(Num(20 + r))>>
          [] kind = "blank"      -> BlankRow

\* a header row of a kind
HeaderRow(kind) ==
    CASE kind = "A_B"  -> <<Text(<<"A">>), Blank, Text(<<"B">>)>>
      [] kind = "_X_"  -> <<Blank, Text(<<"X">>), Blank>>
      [] kind = "12_"  -> <<Text(<<"1">>), Text(<<"2">>), Blank>>
      [] kind = "Name" -> <<Text(<<"N", "a", "m", "e">>), Text(<<"N", "a", "m", "e">>),
                            Text(<<"N", "a", "m", "e">>)>>
      [] kind = "KKM"  -> <<Text(<<"K">>), Text(<<"K">>), Text(<<"M">>)>>
      [] kind = "KLM"  -> <<Text(<<"K">>), Text(<<"L">>), Text(<<"M">>)>>
      [] kind = "KL_"  -> <<Text(<<"K">>), Text(<<"L">>), Blank>>
      [] kind = "_A_"  -> <<Blank, Text(<<"A">>), Blank>>

HeaderInt(h) == [int |-> TRUE, rows |-> <<h>>]

HeaderList(l) == [int |-> FALSE, rows |-> l]

NoSkip == [form |-> "none", rows |-> <<>>]

SkipInt(r) == [form |-> "int", rows |-> <<r>>]

SkipList(l) == [form |-> "list", rows |-> l]

SkipRange(start, end) == [form |-> "range", rows |-> <<start, end>>]

NoMerged == [form |-> "none", cols |-> <<>>]

MergedStr(c) == [form |-> "str", cols |-> <<c>>]

MergedList(l) == [form |-> "list", cols |-> l]

Config(header_rows, end_row, first, last, skip_rows, merged, forward_fill_values) ==
    [name |-> "table", sheet_name |-> "Sheet",
     header_rows |-> header_rows, end_row |-> end_row,
     column_range |-> [first |-> first, last |-> last],
     skip_rows |-> skip_rows, columns_with_merged_rows |-> merged,
     forward_fill_values |-> forward_fill_values]

\* tables in the rows 2..8 and the columns B..D of a sheet of 8 rows: the
\* header in the rows 2..4, data from row 5 on, a title in A1
TitleColumn == [r \in 1..8 |-> IF r = 1 THEN Text(<<"T", "i", "t", "l", "e">>) ELSE Blank]

TableSheet(h2, h3, h4, d5, d6, d7, d8) ==
    MakeSheet(<<BlankRow, HeaderRow(h2), HeaderRow(h3), HeaderRow(h4),
                DataRow(d5, 5), DataRow(d6, 6), DataRow(d7, 7), DataRow(d8, 8)>>,
              TitleColumn, BlankColumn(8))

HeaderForms == {HeaderInt(4), HeaderList(<<3, 4>>), HeaderList(<<2, 3, 4>>)}

\* row counts, skipped rows and percentages
RowsInputs ==
    \E d5 \in {"pct_num", "num_pct"}, d6 \in {"pct_num", "num_pct"},
       d7 \in {"pct_num", "num_pct"}, d8 \in {"blank", "pct_num"},
       h \in HeaderForms, end_row \in {7, 8, 9},
       skip \in {NoSkip, SkipInt(6), SkipInt(0), SkipList(<<5, 7>>), SkipList(<<6, 6>>),
       SkipList(<<>>), SkipList(<<8>>), SkipRange(5, 6)} :
        /\ sheet = TableSheet("A_B", "_X_", "KLM", d5, d6, d7, d8)
        /\ table_config = Config(h, end_row, 2, 4, skip, NoMerged, TRUE)

\* blank cells: filling along the rows and down the merged columns
FillInputs ==
    \E d5 \in {"num_num", "gap_num", "label_only"},
       d6 \in {"num_num", "gap_num", "lead_gap", "label_only"},
       d7 \in {"num_num", "gap_num", "lead_gap", "label_only"},
       h \in HeaderForms, skip \in {NoSkip, SkipInt(6)},
       merged \in {NoMerged, MergedStr(3), MergedList(<<2, 3>>), MergedStr(5)},
       forward_fill_values \in BOOLEAN :
        /\ sheet = TableSheet("A_B", "_X_", "KLM", d5, d6, d7, "blank")
        /\ table_config = Config(h, 7, 2, 4, skip, merged, forward_fill_values)

\* header rows and the header_rows of the config
HeaderInputs ==
    \E h2 \in {"A_B", "_X_", "12_", "Name", "KKM", "KLM"},
       h3 \in {"A_B", "_X_", "12_", "Name", "KKM", "KLM"},
       h4 \in {"A_B", "_X_", "12_", "Name", "KKM", "KLM"},
       h \in HeaderForms \cup {HeaderList(<<4>>), HeaderList(<<2, 4>>), HeaderList(<<4, 3>>)} :
        /\ sheet = TableSheet(h2, h3, h4, "num_num", "num_num", "num_num", "blank")
        /\ table_config = Config(h, 7, 2, 4, NoSkip, NoMerged, TRUE)

\* the same table with content around it: a cell above the header, a row
\* below the data, the columns A and E next to the table, a last column
\* without a label or without anything
BoundsSheet(above, d8, left, right, last_column) ==
    LET h4   == IF last_column = "full" THEN "KLM" ELSE "KL_"
        kind == IF last_column = "empty" THEN "num_gap" ELSE "num_num"
        a    == [r \in 1..8 |->
                    IF r = 1 THEN Text(<<"T", "i", "t", "l", "e">>)
                    ELSE IF r = 4 /\ left = "kept" THEN Text(DO_NOT_DELETE)
                    ELSE IF r = 5 /\ left # "blank" THEN Text(<<"z">>)
                    ELSE Blank]
        e    == [r \in 1..8 |-> IF r = 5 THEN right ELSE Blank]
    IN  MakeSheet(<< above, HeaderRow("A_B"), HeaderRow("_X_"), HeaderRow(h4),
                     DataRow(kind, 5), DataRow(kind, 6), DataRow(kind, 7), DataRow(d8, 8) >>,
                  a, e)

\* the row above the header: blank, or with a cell in the column B or C
AboveRows ==
    {BlankRow, <<Blank, Text(<<"T">>), Blank>>, <<Text(<<"T">>), Blank, Blank>>,
     <<Blank, Text(<<"nbsp">>), Blank>>}

\* what lies around the table
SurroundingsInputs ==
    \E above \in AboveRows, d8 \in {"blank", "num_num", "notes", "hyphen"},
       left \in {"blank", "data", "kept"},
       right \in {Blank, Text(<<"backtick">>), Text(<<"nbsp">>), Text(<<"z">>)},
       last_column \in {"full", "unnamed", "empty"},
       h \in HeaderForms, end_row \in {7, 8} :
        /\ sheet = BoundsSheet(above, d8, left, right, last_column)
        /\ table_config = Config(h, end_row, 2, 4, NoSkip, NoMerged, TRUE)

\* a last column with or without a label, with or without data, under
\* header rows that leave the cell above every first header row blank
LastColumnInputs ==
    \E h \in HeaderForms, h4 \in {"KLM", "KL_"}, kind \in {"num_num", "num_gap"},
       forward_fill_values \in BOOLEAN :
        /\ sheet = TableSheet("A_B", "A_B", h4, kind, kind, kind, "blank")
        /\ table_config = Config(h, 7, 2, 4, NoSkip, NoMerged, forward_fill_values)

\* one cell in the column E beside the table, in a header row or a data row
RightProbeInputs ==
    \E h \in HeaderForms, row \in {2, 3, 4, 5, 7},
       right \in {Text(<<"z">>), Text(<<"backtick">>), Text(<<" ">>)} :
        /\ sheet = MakeSheet(<<BlankRow, HeaderRow("A_B"), HeaderRow("A_B"), HeaderRow("KLM"),
                               DataRow("num_num", 5), DataRow("num_num", 6),
                               DataRow("num_num", 7), BlankRow>>,
                             TitleColumn, [r \in 1..8 |-> IF r = row THEN right ELSE Blank])
        /\ table_config = Config(h, 7, 2, 4, NoSkip, NoMerged, TRUE)

\* a table in the columns C..D with the column B beside it: B holds a cell in
\* the first header row and a cell in the first data row
LeftProbeInputs ==
    \E h \in HeaderForms,
       top \in {Blank, Text(DO_NOT_DELETE), Text(<<"K">>)},
       below \in {Blank, Text(DO_NOT_DELETE), Text(<<"P">>)} :
        /\ table_config = Config(h, 7, 3, 4, NoSkip, NoMerged, TRUE)
        /\ sheet = MakeSheet(
                [r \in 1..8 |->
                    << IF r = first_header_row(table_config) THEN top
                       ELSE IF r = 5 THEN below ELSE Blank,
                       IF r \in {2, 3} THEN Text(<<"A">>)
                       ELSE IF r = 4 THEN Text(<<"K">>)
                       ELSE IF r \in 5..7 THEN Cell(Num(r)) ELSE Blank,
                       IF r = 4 THEN Text(<<"L">>)
                       ELSE IF r \in 5..7 THEN Cell(Num(20 + r)) ELSE Blank >>],
                TitleColumn, BlankColumn(8))

\* notes and sources below the data or in its last row
NotesInputs ==
    \E h \in HeaderForms, d7 \in {"num_num", "notes", "sources"},
       d8 \in {"blank", "notes", "sources"}, end_row \in {7, 8} :
        /\ sheet = TableSheet("A_B", "A_B", "KLM", "num_num", "num_num", d7, d8)
        /\ table_config = Config(h, end_row, 2, 4, NoSkip, NoMerged, TRUE)

\* the table read from its second column on: column B lies left of the range
NarrowInputs ==
    \E above \in AboveRows, d8 \in {"blank", "num_num", "notes"},
       right \in {Blank, Text(<<"z">>)},
       h \in HeaderForms, end_row \in {7, 8} :
        /\ sheet = BoundsSheet(above, d8, "blank", right, "full")
        /\ table_config = Config(h, end_row, 3, 4, NoSkip, NoMerged, TRUE)

\* a last header row with the label that the top row holds one column to the
\* left
FilledLabelInputs ==
    \E h \in HeaderForms, h3 \in {"A_B", "_X_"} :
        /\ sheet = TableSheet("A_B", h3, "_A_", "num_num", "num_num", "num_num", "blank")
        /\ table_config = Config(h, 7, 2, 4, NoSkip, NoMerged, TRUE)

\* configs that point off the table or off the sheet
ExtentInputs ==
    \E above \in {BlankRow, <<Blank, Text(<<"T">>), Blank>>}, d8 \in {"blank", "num_num"},
       right \in {Blank, Text(<<"z">>)},
       h \in {HeaderInt(4), HeaderInt(1), HeaderInt(9), HeaderList(<<3, 4>>), HeaderList(<<8, 9>>)},
       end_row \in {3, 4, 7, 8, 9},
       column_range \in {<<2, 4>>, <<2, 3>>, <<2, 5>>, <<2, 6>>, <<1, 4>>, <<6, 7>>} :
        /\ sheet = BoundsSheet(above, d8, "blank", right, "full")
        /\ table_config = Config(h, end_row, column_range[1], column_range[2], NoSkip, NoMerged, TRUE)

Inputs ==
    \/ RowsInputs \/ FillInputs \/ HeaderInputs
    \/ SurroundingsInputs \/ LastColumnInputs \/ RightProbeInputs \/ LeftProbeInputs
    \/ NotesInputs \/ NarrowInputs \/ FilledLabelInputs
    \/ ExtentInputs

\* Parser(file) has the workbook open; the arguments of a TableConfig are given
Init ==
    /\ Inputs
    /\ config_checks = TRUE
    /\ pc = "new"
    /\ data = NoFrame
    /\ error = NoError
    /\ started = <<>>
    /\ calls = 0
    /\ returned = [c \in BOOLEAN |-> NotCalled]
    /\ text = <<>>
    /\ results = <<>>
    /\ NoParser

Next ==
    \/ Construct
    \/ \E c \in BOOLEAN : Call(c)
    \/ CheckRowsOnSheet
    \/ CheckColumnsOnSheet
    \/ ReadTable
    \/ CheckColumnsUnique
    \/ Sanitise
    \/ Percentages
    \/ CheckTable
    \/ Return

Spec == Init /\ [][Next]_vars

\* ------------------------------------------------------------- claims

\* the rows a config declares to skip (0 and an empty list declare none)
DeclaredSkipRows(sr) ==
    IF SkipRowsGiven(sr) /\ sr.form # "range"
    THEN {sr.rows[i] : i \in 1..Len(sr.rows)}
    ELSE IF sr.form = "range" THEN sr.rows[1]..sr.rows[2]
    ELSE {}

ExpectedRowCount ==
    table_config.end_row - last_header_row(table_config)
        - Cardinality(DeclaredSkipRows(table_config.skip_rows))

\* sheet row end_row exists and holds a value in some column of the sheet
EndRowHoldsData ==
    /\ table_config.end_row \in 1..max_row(sheet)
    /\ \E c \in 1..max_column(sheet) : ~EmptyForPandas(sheet[table_config.end_row][c].v)

\* C1 as stated: whenever get_table_from_config returns a table, it has
\* end_row - last header row - (number of declared skip rows) rows
C1_RowCountOfEveryTable ==
    pc = "done" => Len(data.rows) = ExpectedRowCount

\* C1 amended: a returned table has end_row - last header row - (number of
\* distinct declared skip rows) rows when sheet row end_row exists and holds
\* a value, for single-row and multi-row headers alike
C1_RowCountWhenEndRowHoldsData ==
    (pc = "done" /\ EndRowHoldsData) => Len(data.rows) = ExpectedRowCount

\* a table with a multi-row header and two skipped rows was returned
C1_Witness ==
    /\ pc = "done"
    /\ EndRowHoldsData
    /\ ~table_config.header_rows.int
    /\ Cardinality(DeclaredSkipRows(table_config.skip_rows)) = 2
    /\ Len(data.rows) = 1

\* the table read_table gives for the same config without skip_rows
UnskippedTable == read_table(sheet, [table_config EXCEPT !.skip_rows = NoSkip]).df

\* C2 as stated: each of the three forms of skip_rows (a row, a list of rows,
\* a {start, end} range) can be built into a TableConfig, and read_table
\* removes exactly the declared rows (data index = sheet row - last header
\* row - 1), keeping the other rows in order under a contiguous index
C2_SkipRowsInThreeForms ==
    /\ table_config.skip_rows.form \in {"int", "list", "range"} => pc # "invalid"
    /\ (pc = "unique" /\ ~MergedRowsGiven(table_config.columns_with_merged_rows))
          => data.rows =
                DropIndices(UnskippedTable.rows, 1,
                            {r - last_header_row(table_config) :
                                r \in DeclaredSkipRows(table_config.skip_rows)})

\* read_table has just returned the table under the three-row header
\* ["A", "", "B"], ["", "X", ""], ["1", "2", ""] of the sheet rows 2..4
ThreeRowHeaderRead ==
    /\ pc = "unique"
    /\ table_config.header_rows = HeaderList(<<2, 3, 4>>)
    /\ table_config.column_range = [first |-> 2, last |-> 4]
    /\ [r \in 1..3 |-> SubSeq(sheet[r + 1], 2, 4)]
          = <<HeaderRow("A_B"), HeaderRow("_X_"), HeaderRow("12_")>>

\* C3 as stated: the header rows ["A", "", "B"], ["", "X", ""], ["1", "2", ""]
\* are reconstructed as ["A_1", "A_X_2", "B"]
C3_HeaderKeepsTheDigits ==
    ThreeRowHeaderRead
        => data.columns = <<Str(<<"A", "_", "1">>), Str(<<"A", "_", "X", "_", "2">>),
                            Str(<<"B">>)>>

\* C3 amended: the header rows ["A", "", "B"], ["", "X", ""], ["1", "2", ""]
\* are reconstructed as ["A", "A_X", "B"], because the sanitisation of each
\* fragment strips the lone digits "1" and "2" as footnotes
C3_HeaderWithoutTheDigits ==
    ThreeRowHeaderRead
        => data.columns = <<Str(<<"A">>), Str(<<"A", "_", "X">>), Str(<<"B">>)>>

C3_Witness == ThreeRowHeaderRead /\ Len(data.rows) = 3

\* the labels the header rows of the config hold in the sheet column of the
\* i-th column of the table
HeaderLabels(i) ==
    LET rows == table_config.header_rows.rows
    IN  {sheet[r][table_config.column_range.first + i - 1].v : r \in rows[1]..rows[Len(rows)]}

\* every header row holds the same label in the i-th column, one that the
\* column-name sanitisation leaves as it is
SameLabelInEveryHeaderRow(i) ==
    /\ Cardinality(HeaderLabels(i)) = 1
    /\ \A v \in HeaderLabels(i) :
          isstr(v) /\ v.s # <<>> /\ column_name_sanitiser_text(v.s) = v.s

\* C4 as stated: when every header row of a multi-row header (2 rows, 3 rows
\* or more) holds the same label in a column, the name of the column is that
\* label, once
C4_RepeatedLabelOnce ==
    (pc = "unique" /\ ~table_config.header_rows.int)
        => \A i \in 1..Len(data.columns) :
              SameLabelInEveryHeaderRow(i) => data.columns[i] \in HeaderLabels(i)

\* the sheet rows of the rows of the table, in order: the rows after the last
\* header row without the declared skip rows
TableSheetRows ==
    LET last == last_header_row(table_config)
    IN  DropIndices([k \in 1..(table_config.end_row - last) |-> last + k], 1,
                    {r - last : r \in DeclaredSkipRows(table_config.skip_rows)})

\* the sheet cell behind row k and column i of the table
TableCell(k, i) ==
    SheetCell(sheet, TableSheetRows[k], table_config.column_range.first + i - 1)

IsBlank(k, i) == EmptyForPandas(TableCell(k, i).v)

\* the columns of the table left of column i that hold a value in row k
ValuesToTheLeft(k, i) == {j \in 1..(i - 1) : ~IsBlank(k, j)}

\* the columns of the table that columns_with_merged_rows names
MergedColumns ==
    LET cm == table_config.columns_with_merged_rows
    IN  {find_data_column_index(cm.cols[n], table_config.column_range) + 1 :
            n \in 1..Len(cm.cols)}

\* every blank cell with a value to its left in the table holds the nearest
\* such value
FilledFromTheLeft ==
    \A k \in 1..Len(data.rows), i \in 1..Len(data.columns) :
        (IsBlank(k, i) /\ ValuesToTheLeft(k, i) # {})
            => data.rows[k][i] = TableCell(k, Max(ValuesToTheLeft(k, i))).v

\* every blank cell outside the merged columns is missing
BlankCellsStayBlank ==
    \A k \in 1..Len(data.rows), i \in 1..Len(data.columns) :
        (IsBlank(k, i) /\ i \notin MergedColumns) => isna(data.rows[k][i])

ValuesAbove(k, i) == {m \in 1..(k - 1) : ~IsBlank(m, i)}

\* C6 as stated: a blank cell of a column named in columns_with_merged_rows
\* holds the nearest value above it in that column, also when
\* forward_fill_values is true and the cell has a left neighbour with a
\* value; a blank cell of a column not named is never filled from above (it
\* is missing, or filled from its left)
C6_VerticalFillTakesPrecedence ==
    pc = "unique"
        => \A k \in 1..Len(data.rows), i \in 1..Len(data.columns) :
              IsBlank(k, i)
                => IF i \in MergedColumns
                   THEN ValuesAbove(k, i) # {}
                            => data.rows[k][i] = TableCell(Max(ValuesAbove(k, i)), i).v
                   ELSE \/ isna(data.rows[k][i])
                        \/ /\ ValuesToTheLeft(k, i) # {}
                           /\ data.rows[k][i] = TableCell(k, Max(ValuesToTheLeft(k, i))).v

\* the sheet cell behind row k and column i of the table holds a number in a
\* percentage format
IsPercentage(k, i) == isnum(TableCell(k, i).v) /\ TableCell(k, i).pct

\* C7: the percentage postprocessor never indexes a cell off the table, and
\* when it returns it has multiplied by 100, once, exactly the cells of the
\* table whose sheet cell holds a number in a percentage format, in a column
\* that is all percentages as in a mixed column, and with the rows of
\* skip_rows removed; every other cell is left as it was
C7_PercentagesScaledOnce ==
    [][pc = "percent"
          => /\ error'.type # "IndexError"
             /\ pc' # "raised"
                  => /\ data'.columns = data.columns
                     /\ Len(data'.rows) = Len(data.rows)
                     /\ \A k \in 1..Len(data.rows), i \in 1..Len(data.columns) :
                           data'.rows[k][i] =
                               IF IsPercentage(k, i)
                               THEN Dec(data.rows[k][i].n * 100, data.rows[k][i].e)
                               ELSE data.rows[k][i]]_vars

\* a table that lost a row to skip_rows came back with a percentage of a
\* later row scaled, in a column that holds other numbers as well
C7_Witness ==
    /\ pc = "done"
    /\ \E k \in 1..Len(data.rows), i \in 1..Len(data.columns) :
          /\ \E r \in DeclaredSkipRows(table_config.skip_rows) :
                last_header_row(table_config) < r /\ r < TableSheetRows[k]
          /\ IsPercentage(k, i)
          /\ data.rows[k][i] = Dec(TableCell(k, i).v.n * 100, TableCell(k, i).v.e)
          /\ \E m \in 1..Len(data.rows) : isnum(data.rows[m][i]) /\ ~IsPercentage(m, i)

\* C8 as stated: a call with config_checks = False raises none of the errors
\* of the checks (the extent of the config, data above the header or after
\* end_row, missing values or notes in the first column, an empty last column,
\* a missed column to the right or left, duplicate column names)
C8_NoCheckErrorWithoutChecks ==
    (pc = "raised" /\ ~config_checks) => error.type # "TableConfigError"

\* C8 amended: a call with config_checks = False raises none of the errors of
\* the checks but the one of duplicate column names, which is checked
\* whatever the flag
C8_OnlyDuplicateColumnsWithoutChecks ==
    (pc = "raised" /\ ~config_checks /\ error.type = "TableConfigError")
        => error.check = "duplicate_column_names"

\* the call with the checks raised an error of a check, the call without
\* them returned the table
C8_Witness ==
    /\ pc = "done"
    /\ ~config_checks
    /\ returned[TRUE].status = "raised"
    /\ returned[TRUE].error.type = "TableConfigError"

\* C9: when the call with config_checks = True returns a table, the call
\* with config_checks = False on the same workbook and config returns an
\* equal table
C9_ChecksDoNotChangeTheTable ==
    (returned[TRUE].status = "table" /\ returned[FALSE].status # "none")
        => returned[FALSE] = returned[TRUE]

\* both calls returned a table with rows, with a percentage in it
C9_Witness ==
    /\ returned[TRUE].status = "table"
    /\ returned[FALSE].status = "table"
    /\ Len(returned[TRUE].df.rows) = 3
    /\ \E k \in 1..3, i \in 1..3 : IsPercentage(k, i)

\* the bounds of the config that lie off the sheet
BoundsOffSheet ==
    {b \in {"first_header_row_not_on_sheet", "end_row_not_on_sheet",
            "first_column_not_on_sheet", "last_column_not_on_sheet"} :
        \/ b = "first_header_row_not_on_sheet"
              /\ first_header_row(table_config) > max_row(sheet)
        \/ b = "end_row_not_on_sheet" /\ table_config.end_row > max_row(sheet)
        \/ b = "first_column_not_on_sheet"
              /\ table_config.column_range.first > max_column(sheet)
        \/ b = "last_column_not_on_sheet"
              /\ table_config.column_range.last > max_column(sheet)}

InCall == pc \notin {"new", "invalid", "idle"}

MaxTextLen == 4

MaxPasses == 2

\* the texts of at most n characters of an alphabet
RECURSIVE TextsOver(_, _)
TextsOver(alphabet, n) ==
    IF n = 0 THEN {<<>>}
    ELSE LET shorter == TextsOver(alphabet, n - 1)
         IN  shorter \cup {Append(s, c) : s \in shorter, c \in alphabet}

\* values with notes, as the tests of _remove_series_notes_after_values have them
NotesExamples ==
    { <<"5", "0", ".", "0", " ", "-", " ", "n", "o", "t", "e">>,
      <<"3", "5", ".", "5", " ", "(", "c", "o", "m", "m", "e", "n", "t", ")">>,
      <<"4", "2", ".", "0", " ", "-", " ", "n", "o", "t", "e", " ", "(", "a", "d", "d", "i", "t", "i", "o", "n", "a", "l", " ", "i", "n", "f", "o", ")">>,
      <<"9", "9", "9", ".", "9", " ", "(", "i", "n", "f", "o", ")", " ", "-", " ", "s", "e", "c", "o", "n", "d", " ", "n", "o", "t", "e">>,
      <<"2", "0", "2", "4", "-", "2", "5", " ", "d", "a", "t", "a", " ", "f", "o", "r", " ", "y", "e", "a", "r">>,
      <<"-", " ", "(", "n", "o", "t", "e", ")">> }

\* two words with a run of two, three and four spaces between them
WhitespaceExamples ==
    { <<"n">> \o run \o <<"y">> :
        run \in {<<" ", " ">>, <<" ", " ", " ">>, <<" ", " ", " ", " ">>} }

\* values of spaces, asterisks and footnotes; values made of a number, hyphens
\* and parentheses; values that begin like a financial year
SeriesTexts ==
    TextsOver({"n", " ", "*", "5"}, MaxTextLen)
        \cup TextsOver({"5", ".", "-", " ", "(", "n", ")"}, MaxTextLen)
        \cup {<<"2", "0", "2", "4", "-", "2", "5">> \o s :
                s \in TextsOver({"-", " ", "(", "n"}, MaxTextLen - 2)}
        \cup NotesExamples
        \cup WhitespaceExamples

callvars == <<sheet, table_config, config_checks, pc, data, error, started, calls, returned>>

SeriesInit ==
    /\ text \in SeriesTexts
    /\ results = <<>>
    /\ NoParser
    /\ sheet = <<>>
    /\ table_config = Config(HeaderInt(1), 1, 1, 1, NoSkip, NoMerged, FALSE)
    /\ config_checks = FALSE
    /\ pc = "series"
    /\ data = NoFrame
    /\ error = NoError
    /\ started = <<>>
    /\ calls = 0
    /\ returned = [c \in BOOLEAN |-> NotCalled]

\* the value the next sanitiser is handed
Current == IF results = <<>> THEN Str(text) ELSE results[Len(results)].value

\* the nine series functions of _values_casting_and_sanitisation on a value:
\* only text values are sanitised
SanitiseValue(v) == IF isstr(v) THEN SanitiseText(v.s) ELSE v

\* the sanitisation is run over the value once more
SanitiseValues ==
    /\ pc = "series"
    /\ Len(results) < MaxPasses
    /\ \A k \in 1..Len(results) : results[k].by = "values_casting_and_sanitisation"
    /\ results' = Append(results, [by |-> "values_casting_and_sanitisation",
                                   value |-> SanitiseValue(Current)])
    /\ UNCHANGED <<text, callvars, parservars>>

\* _remove_series_notes_after_values alone is run over the text
RemoveNotes ==
    /\ pc = "series"
    /\ results = <<>>
    /\ results' = <<[by |-> "remove_series_notes_after_values",
                     value |-> Str(remove_series_notes_after_values(text))]>>
    /\ UNCHANGED <<text, callvars, parservars>>

\* _column_name_sanitiser is run over the text as the name of a column
SanitiseName ==
    /\ pc = "series"
    /\ results = <<>>
    /\ results' = <<[by |-> "column_name_sanitiser",
                     value |-> Str(column_name_sanitiser_text(text))]>>
    /\ UNCHANGED <<text, callvars, parservars>>

SeriesNext == SanitiseValues \/ RemoveNotes \/ SanitiseName

SeriesSpec == SeriesInit /\ [][SeriesNext]_vars

\* ------------------------------------------------------------------
\* C11

\* the check that raises each kind of TableConfigError
RaisingCheck(check) ==
    CASE check \in {"first_header_row_not_on_sheet", "end_row_not_on_sheet"} ->
            "check_if_header_row_and_end_row_are_on_sheet"
      [] check \in {"first_column_not_on_sheet", "last_column_not_on_sheet"} ->
            "check_if_start_and_end_column_are_on_sheet"
      [] check = "duplicate_column_names" -> "check_columns_unique"
      [] check = "data_above_first_header_row" -> "check_no_data_above_first_header_row"
      [] check = "data_after_end_row" -> "check_data_ends_where_expected"
      [] check = "data_right_of_last_column" ->
            "check_for_missed_column_on_right_hand_side_of_table"
      [] check = "data_left_of_first_column" ->
            "check_for_missed_column_on_left_hand_side_of_table"
      [] check = "last_column_empty" -> "check_last_column_isnt_empty"
      [] check = "first_column_has_na" -> "check_for_over_run_into_another_table"
      [] check = "first_column_has_notes" -> "check_for_over_run_into_notes"

ErrorKinds ==
    {"first_header_row_not_on_sheet", "end_row_not_on_sheet", "first_column_not_on_sheet",
     "last_column_not_on_sheet", "duplicate_column_names", "data_above_first_header_row",
     "data_after_end_row", "data_right_of_last_column", "data_left_of_first_column",
     "last_column_empty", "first_column_has_na", "first_column_has_notes"}

\* the checks that can word an error for the table `name` as `message`
ChecksWording(message, name) ==
    {RaisingCheck(k) : k \in {c \in ErrorKinds :
        \E j \in 0..Len(notes_sub_strings) :
            error_message(c, name, IF j = 0 THEN <<>> ELSE notes_sub_strings[j]) = message}}

LastStarted == started[Len(started)]

BlankProbe(v) == isna(v) \/ v \in {Str(<<>>), Str(<<" ">>), Str(<<"nbsp">>)}

HasRowAbove == first_header_row(table_config) > 1

\* the cells of the second column above the first header row and below end_row
CellAbove(column) == SheetCell(sheet, first_header_row(table_config) - 1, column).v

CellBelow(column) == SheetCell(sheet, table_config.end_row + 1, column).v

SecondColumn == table_config.column_range.first + 1

CheckTableStarted == \E j \in 1..Len(started) : started[j] = "check_table"

DataAbove == error.type = "TableConfigError" /\ error.check = "data_above_first_header_row"

DataAfterEnd == error.type = "TableConfigError" /\ error.check = "data_after_end_row"

NullInFirstColumn(df) ==
    /\ df.columns # <<>>
    /\ \E k \in 1..Len(df.rows) : isna(df.rows[k][1])

Started(check) == \E j \in 1..Len(started) : started[j] = check

\* C13: a call with config_checks = True returns no table with a null in its
\* first column; when the over-run check is reached with such a table (after
\* skipped rows, fills and sanitisation) it raises the table over-run error
\* with the name of the table, and it raises that error for no other table.
C13_NoNullInFirstColumn ==
    /\ (config_checks /\ pc \in {"return", "done"}) => ~NullInFirstColumn(data)
    /\ (config_checks /\ Started("check_for_over_run_into_another_table")
            /\ NullInFirstColumn(data)) =>
            /\ pc = "raised"
            /\ error = TableConfigError("first_column_has_na", table_config.name, <<>>)
    /\ (pc = "raised" /\ error.type = "TableConfigError"
            /\ error.check = "first_column_has_na") => NullInFirstColumn(data)

\* the over-run error is raised for a table whose first column was filled
\* on the sheet: a hyphen there became a null in sanitisation
C13_Witness ==
    /\ pc = "raised"
    /\ error.type = "TableConfigError"
    /\ error.check = "first_column_has_na"
    /\ \A r \in (last_header_row(table_config) + 1)..table_config.end_row :
            ~isna(SheetCell(sheet, r, table_config.column_range.first).v)

\* ------------------------------------------------------------------
\* C14

LastColumn == table_config.column_range.last

DataRowsOfSheet == (last_header_row(table_config) + 1)..table_config.end_row

\* all data cells of the last column of the declared range are blank
LastColumnBlankOnSheet ==
    \A r \in DataRowsOfSheet : EmptyForPandas(SheetCell(sheet, r, LastColumn).v)

\* the last column of the table is entirely blank
LastColumnBlank(df) ==
    /\ df.columns # <<>>
    /\ \A k \in 1..Len(df.rows) : isna(df.rows[k][Len(df.columns)])

\* C14: a call with config_checks = True returns no table whose last column
\* is entirely blank, and returns no table when all data cells of the last
\* column of the declared range are blank, with or without a header label.
C14_LastColumnNotBlank ==
    (config_checks /\ pc \in {"return", "done"}) =>
        /\ ~LastColumnBlank(data)
        /\ ~LastColumnBlankOnSheet

\* ------------------------------------------------------------------
\* C15

RightProbeColumn == table_config.column_range.last + 1

\* what the probe on the right takes for no data: an empty cell, a backtick,
\* a non-breaking space
NoDataOnTheRight(v) == EmptyForPandas(v) \/ v \in {Str(<<"backtick">>), Str(<<"nbsp">>)}

RowsWithDataOnTheRight(rows) ==
    {r \in rows : ~NoDataOnTheRight(SheetCell(sheet, r, RightProbeColumn).v)}

DataOnTheRight ==
    error.type = "TableConfigError" /\ error.check = "data_right_of_last_column"

\* C15: a call with config_checks = True returns a table only if the column
\* right of column_range holds no data in any row from the first header row
\* to end_row, header rows included.
C15_RightColumnBlankFromFirstHeaderRow ==
    (config_checks /\ pc \in {"return", "done"}) =>
        RowsWithDataOnTheRight(first_header_row(table_config)..table_config.end_row) = {}

\* C15 (as the code has it): a call with config_checks = True returns a
\* table only if the column right of column_range holds no data in the rows
\* after the last header row up to end_row; when the probe on the right is
\* reached and one of these cells holds data, the missed-right-column error
\* is raised with the name of the table, and it is raised in no other case:
\* the cells of the probe column in the header rows are not looked at.
C15_RightColumnBlankBelowTheHeader ==
    /\ (config_checks /\ pc \in {"return", "done"}) =>
            RowsWithDataOnTheRight(DataRowsOfSheet) = {}
    /\ (config_checks /\ Started("check_for_missed_column_on_right_hand_side_of_table")
            /\ RowsWithDataOnTheRight(DataRowsOfSheet) # {}) =>
            /\ pc = "raised"
            /\ error = TableConfigError("data_right_of_last_column", table_config.name, <<>>)
    /\ (pc = "raised" /\ DataOnTheRight) => RowsWithDataOnTheRight(DataRowsOfSheet) # {}

\* a table is returned although the probe column holds a text in a header row
C15_Witness ==
    /\ pc = "done"
    /\ config_checks
    /\ returned[TRUE].status = "table"
    /\ RowsWithDataOnTheRight(first_header_row(table_config)..last_header_row(table_config)) # {}

\* ------------------------------------------------------------------
\* C16

LeftProbeColumn == table_config.column_range.first - 1

LeftProbeCell(r) == SheetCell(sheet, r, LeftProbeColumn).v

\* the rows of the table, or those below its first header row, in which the
\* column left of column_range holds something
FilledOnTheLeft(rows) == {r \in rows : ~EmptyForPandas(LeftProbeCell(r))}

TableRows == first_header_row(table_config)..table_config.end_row

RowsBelowFirstHeaderRow == (first_header_row(table_config) + 1)..table_config.end_row

IsPlaceholder(v) == isstr(v) /\ Contains(v.s, DO_NOT_DELETE)

DataOnTheLeft ==
    pc = "raised" /\ error = TableConfigError("data_left_of_first_column", table_config.name, <<>>)

LeftProbeMade ==
    /\ config_checks
    /\ Started("check_for_missed_column_on_left_hand_side_of_table")
    /\ LeftProbeColumn >= 1

\* C16: when the probe on the left is made, the missed-left-column error is
\* raised exactly when the column left of column_range is not blank over the
\* rows of the table, unless the placeholder is all that column holds or the
\* first column is B.
C16_PlaceholderAloneIsExempted ==
    LeftProbeMade =>
        (DataOnTheLeft <=>
            /\ FilledOnTheLeft(TableRows) # {}
            /\ ~ \A r \in FilledOnTheLeft(TableRows) : LeftProbeCell(r) = Str(DO_NOT_DELETE)
            /\ table_config.column_range.first # 2)

\* C16 (as the code has it): when the probe on the left is made, the
\* missed-left-column error is raised exactly when the column left of
\* column_range holds something below the first header row, its cell in the
\* first header row does not hold the placeholder, and the first column is
\* not B: a column headed by the placeholder is let through with any data
\* below it, and a column that is filled in the first header row only is
\* let through as well.
C16_PlaceholderInFirstHeaderRowIsExempted ==
    LeftProbeMade =>
        (DataOnTheLeft <=>
            /\ FilledOnTheLeft(RowsBelowFirstHeaderRow) # {}
            /\ ~IsPlaceholder(LeftProbeCell(first_header_row(table_config)))
            /\ table_config.column_range.first # 2)

\* a table is returned although the column left of it holds the placeholder
\* in the first header row and a text below it
C16_Witness ==
    /\ pc = "done"
    /\ config_checks
    /\ returned[TRUE].status = "table"
    /\ table_config.column_range.first = 3
    /\ IsPlaceholder(LeftProbeCell(first_header_row(table_config)))
    /\ LeftProbeCell(5) = Str(<<"P">>)

\* ------------------------------------------------------------------
\* C17

\* "Notes:", "Note:", "Source:", "Sources:"
NoteIntroducers ==
    << <<"N", "o", "t", "e", "s", ":">>, <<"N", "o", "t", "e", ":">>,
       <<"S", "o", "u", "r", "c", "e", ":">>, <<"S", "o", "u", "r", "c", "e", "s", ":">> >>

\* the note introducers that a value of the first column of the table contains
IntroducersInFirstColumn(df) ==
    {j \in 1..Len(NoteIntroducers) :
        /\ df.columns # <<>>
        /\ \E k \in 1..Len(df.rows) :
                isstr(df.rows[k][1]) /\ Contains(df.rows[k][1].s, NoteIntroducers[j])}

NotesInFirstColumn == error.type = "TableConfigError" /\ error.check = "first_column_has_notes"

\* C17: a call with config_checks = True returns no table with a value of the
\* first column that contains "Notes:", "Note:", "Source:" or "Sources:"; when
\* the notes check is reached with such a table it raises the notes over-run
\* error, which names the table and quotes a sub string that a value of the
\* first column contains, and the error is raised for no other table.
C17_NoNotesInFirstColumn ==
    /\ (config_checks /\ pc \in {"return", "done"}) => IntroducersInFirstColumn(data) = {}
    /\ (config_checks /\ Started("check_for_over_run_into_notes")
            /\ IntroducersInFirstColumn(data) # {}) =>
            /\ pc = "raised"
            /\ \E j \in IntroducersInFirstColumn(data) :
                    error = TableConfigError("first_column_has_notes", table_config.name,
                                             NoteIntroducers[j])
    /\ (pc = "raised" /\ NotesInFirstColumn) => IntroducersInFirstColumn(data) # {}

\* the error quotes "Sources:" for a table whose last row is a line of sources
C17_Witness ==
    /\ pc = "raised"
    /\ NotesInFirstColumn
    /\ error.message[2] = table_config.name
    /\ error.message[4] = NoteIntroducers[4]

\* ------------------------------------------------------------------
\* C18

DuplicateColumns(df) ==
    \E i, j \in 1..Len(df.columns) : i # j /\ df.columns[i] = df.columns[j]

DuplicateColumnNames ==
    pc = "raised" /\ error = TableConfigError("duplicate_column_names", table_config.name, <<>>)

SanitisedTwice ==
    /\ Len(results) = 2
    /\ \A k \in 1..2 : results[k].by = "values_casting_and_sanitisation"

\* C19: for every text value, running the value sanitisation over its own
\* output gives that output again.
C19_SanitisationIdempotent ==
    SanitisedTwice => results[2].value = results[1].value

\* ------------------------------------------------------------------
\* C20

\* _remove_series_notes_after_values alone was run over the text
NotesRemoved ==
    /\ Len(results) = 1
    /\ results[1].by = "remove_series_notes_after_values"

\* the text begins with a year of four digits, a hyphen and two digits
StartsLikeFinancialYear(s) ==
    /\ Len(s) >= 7
    /\ \A i \in 1..4 : s[i] \in Digit
    /\ s[5] = "-"
    /\ s[6] \in Digit /\ s[7] \in Digit

\* the examples of notes after a number and what is left of them
NotesExamplesStripped ==
    /\ text = <<"5", "0", ".", "0", " ", "-", " ", "n", "o", "t", "e">> => results[1].value = Str(<<"5", "0", ".", "0">>)
    /\ text = <<"3", "5", ".", "5", " ", "(", "c", "o", "m", "m", "e", "n", "t", ")">> => results[1].value = Str(<<"3", "5", ".", "5">>)
    /\ text = <<"4", "2", ".", "0", " ", "-", " ", "n", "o", "t", "e", " ", "(", "a", "d", "d", "i", "t", "i", "o", "n", "a", "l", " ", "i", "n", "f", "o", ")">> => results[1].value = Str(<<"4", "2", ".", "0">>)
    /\ text = <<"9", "9", "9", ".", "9", " ", "(", "i", "n", "f", "o", ")", " ", "-", " ", "s", "e", "c", "o", "n", "d", " ", "n", "o", "t", "e">> => results[1].value = Str(<<"9", "9", "9", ".", "9">>)
    /\ text = <<"2", "0", "2", "4", "-", "2", "5", " ", "d", "a", "t", "a", " ", "f", "o", "r", " ", "y", "e", "a", "r">> => results[1].value = Str(text)

\* C20: note stripping takes "50.0 - note" to "50.0", "35.5 (comment)" to
\* "35.5", "42.0 - note (additional info)" to "42.0" and "999.9 (info) -
\* second note" to "999.9", leaves every value that begins like a financial
\* year as it is, and leaves every value that does not begin with a number (a
\* digit or a decimal point) as it is.
C20_OnlyValuesStartingWithANumberAltered ==
    NotesRemoved =>
        /\ NotesExamplesStripped
        /\ StartsLikeFinancialYear(text) => results[1].value = Str(text)
        /\ (text = <<>> \/ text[1] \notin (Digit \cup {"."})) => results[1].value = Str(text)

\* C20 (as the code has it): the same examples and financial years; a value
\* is left as it is when it begins with neither a digit, a decimal point nor
\* a hyphen, and a value that begins with a hyphen is altered only when an
\* opening parenthesis follows the hyphen, directly or after one whitespace
\* character.
C20_ValuesStartingWithAHyphenAlteredToo ==
    NotesRemoved =>
        /\ NotesExamplesStripped
        /\ StartsLikeFinancialYear(text) => results[1].value = Str(text)
        /\ (text = <<>> \/ text[1] \notin (Digit \cup {".", "-"})) => results[1].value = Str(text)
        /\ (text # <<>> /\ text[1] = "-" /\ results[1].value # Str(text)) =>
                \/ Len(text) >= 3 /\ text[2] = "("
                \/ Len(text) >= 4 /\ text[2] \in WhiteSpace /\ text[3] = "("

\* a note in parentheses after a lone hyphen is removed whole
C20_Witness ==
    /\ NotesRemoved
    /\ text = <<"-", " ", "(", "n", "o", "t", "e", ")">>
    /\ results[1].value = Str(<<>>)

\* ------------------------------------------------ tables on their own

\* df[object_col] is a DataFrame when two columns share the name: to_numeric
\* raises the TypeError that is caught, DataFrame.apply gives a mask indexed
\* by the column names, and df.loc[mask, object_col] cannot align it with the
\* rows of a table that has any
MaskUnaligned(df) ==
    /\ df.rows # <<>>
    /\ \E i, j \in 1..Len(df.columns) : i # j /\ df.columns[i] = df.columns[j]

\* the values of the cells of the tables
FrameValues ==
    { NA, Num(5), Str(<<"7">>), Str(<<"-">>), Str(<<"1", ",", "0", "0", "0">>),
      Str(<<"x", " ", " ", "y">>), Str(<<"5", " ", "*">>) }

\* tables of two rows and two columns, the names of the columns equal or not
Frames ==
    { Frame(<<Str(<<"K">>), Str(<<c>>)>>, << <<a, b>>, <<d, e>> >>) :
        c \in {"K", "L"}, a \in FrameValues, b \in FrameValues,
        d \in FrameValues, e \in FrameValues }

FrameInit ==
    /\ data \in Frames
    /\ results = <<>>
    /\ NoParser
    /\ text = <<>>
    /\ sheet = <<>>
    /\ table_config = Config(HeaderInt(1), 1, 1, 1, NoSkip, NoMerged, FALSE)
    /\ config_checks = FALSE
    /\ pc = "frame"
    /\ error = NoError
    /\ started = <<>>
    /\ calls = 0
    /\ returned = [c \in BOOLEAN |-> NotCalled]

\* _values_casting_and_sanitisation(data) is called on the table: it returns
\* a table or an exception leaves it, IndexingError or, from the reindex of
\* older pandas, ValueError
SanitiseFrame ==
    /\ pc = "frame"
    /\ results = <<>>
    /\ IF MaskUnaligned(data)
       THEN \E kind \in {"IndexingError", "ValueError"} :
                results' = <<[by |-> "values_casting_and_sanitisation",
                              value |-> NoFrame, error |-> Exception(kind)]>>
       ELSE results' = <<[by |-> "values_casting_and_sanitisation",
                          value |-> values_casting_and_sanitisation(data),
                          error |-> NoError]>>
    /\ UNCHANGED <<text, sheet, table_config, config_checks, pc, data, error, started,
                   calls, returned, parservars>>

FrameNext == SanitiseFrame

FrameSpec == FrameInit /\ [][FrameNext]_vars

\* ------------------------------------------------------------------
\* C21

FrameSanitised == pc = "frame" /\ Len(results) = 1

\* the column i of the table handed in, its hyphens made missing values
ColumnIn(i) == Column(replace_dataframe_hyphens_with_na(data), i)

ColumnOut(i) == Column(results[1].value, i)

\* every text of the series parses as a number
Coerces(series) == \A k \in 1..Len(series) : isstr(series[k]) => IsNumericText(series[k].s)

IsNumeric(series) == \A k \in 1..Len(series) : ~isstr(series[k])

\* the nine series functions applied to the text cells of a series
Cleaned(series) ==
    [k \in 1..Len(series) |->
        IF isstr(series[k]) THEN SanitiseText(series[k].s) ELSE series[k]]

\* what _values_casting_and_sanitisation is to do with one column
ColumnRecovered(i) ==
    LET given == ColumnIn(i)
        out == ColumnOut(i)
    IN  IF Coerces(given)
        THEN /\ IsNumeric(out)
             /\ \A k \in 1..Len(given) :
                    out[k] = IF isstr(given[k]) THEN NumericValue(given[k].s) ELSE given[k]
        ELSE /\ \A k \in 1..Len(given) : ~isstr(given[k]) => out[k] = given[k]
             /\ IF Coerces(Cleaned(given))
                THEN IsNumeric(out)
                ELSE out = Cleaned(given)

AscendingAndContiguous(rows) == \A i \in 1..(Len(rows) - 1) : rows[i + 1] = rows[i] + 1

HeaderRowsRefused == pc = "raised" /\ error = Exception("AssertionError")

\* C22: once read_table has run on a config whose header_rows is a list, the
\* call has failed if the list is not ascending and contiguous, and no table
\* is returned for it; a list that is ascending and contiguous, a list of a
\* single row included, is never refused by the assertions on header_rows.
C22_ContiguousHeaderRowsAccepted ==
    (~table_config.header_rows.int /\ Started("read_table")) =>
        IF AscendingAndContiguous(table_config.header_rows.rows)
        THEN ~HeaderRowsRefused
        ELSE pc = "raised"

\* ------------------------------------------- the Parser and its tables

\* str.lower() over the letters the sheet names are written with
lower(s) ==
    [i \in 1..Len(s) |->
        CASE s[i] = "S" -> "s" [] s[i] = "T" -> "t" [] s[i] = "U" -> "u" [] OTHER -> s[i]]

\* self.file.sheet_names
SheetNames(f) == [i \in 1..Len(f) |-> f[i].sheet_name]

\* the sheet names of the workbook that equal the config's letter for letter
MatchingSheetNamesExactly(f, config) ==
    SelectSeq(SheetNames(f), LAMBDA n : n = config.sheet_name)

\* the sheet names of the workbook that equal the config's in lower case
MatchingSheetNames(f, config) ==
    SelectSeq(SheetNames(f), LAMBDA n : lower(n) = lower(config.sheet_name))

\* the TableConfigError of _load_config and the pieces of its f-string: the
\* message tells the sheet and no table
SheetError(check, sheet_name) ==
    [type |-> "TableConfigError", check |-> check, name |-> "", detail |-> sheet_name,
     message |-> IF check = "sheet_not_unique"
                 THEN <<"Workbook sheet '", sheet_name, "' is not unique">>
                 ELSE <<" Sheet '", sheet_name, "' cannot be found in the workbook">>]

\* the loop of _load_config over the configs of the YAML file from the i-th
\* on: each sheet_name becomes the name of the one sheet it matches
RECURSIVE load_config(_, _, _)
load_config(f, configs, i) ==
    IF i > Len(configs) THEN [error |-> NoError, configs |-> configs]
    ELSE LET sheet_names == MatchingSheetNames(f, configs[i])
         IN  IF Len(sheet_names) > 1
             THEN [error |-> SheetError("sheet_not_unique", configs[i].sheet_name),
                   configs |-> <<>>]
             ELSE IF Len(sheet_names) < 1
             THEN [error |-> SheetError("sheet_not_found", configs[i].sheet_name),
                   configs |-> <<>>]
             ELSE load_config(f, [configs EXCEPT ![i].sheet_name = sheet_names[Len(sheet_names)]],
                              i + 1)

\* the table names of each sheet that has a config (the order of the names,
\* which the method sorts, is left out)
get_table_names_by_sheet(configs) ==
    [n \in {configs[i].sheet_name : i \in 1..Len(configs)} |->
        {configs[i].name : i \in {j \in 1..Len(configs) : configs[j].sheet_name = n}}]

\* self.table_configs[table_name], or nothing
ConfigsNamed(configs, table_name) ==
    {configs[i] : i \in {j \in 1..Len(configs) : configs[j].name = table_name}}

\* the cells of the sheet of a name
SheetsNamed(f, sheet_name) ==
    {f[i].cells : i \in {j \in 1..Len(f) : f[j].sheet_name = sheet_name}}

\* the argument `tables` of save_tables
AllTables == [str |-> TRUE, value |-> "all", names |-> <<>>]

OneName(n) == [str |-> TRUE, value |-> n, names |-> <<>>]

TableList(l) == [str |-> FALSE, value |-> "", names |-> l]

NoRequest == [by |-> "none"]

\* how a call of a method of the Parser ended: the table it returned or the
\* exception that left it and, of save_tables, the names its loop had not
\* come to
Outcome(req, table, e, left) ==
    [by |-> req.by, table_name |-> req.table_name, tables |-> req.tables,
     config_checks |-> req.config_checks, table |-> table, error |-> e, left |-> left]

\* the method returns or raises: the Parser is free for the next call
Ends(req, table, e, left) ==
    /\ results' = <<Outcome(req, table, e, left)>>
    /\ request' = NoRequest
    /\ pc' = "parser"

\* get_table_from_config(table_config, config_checks) is entered with the
\* config of a table name
Enters(table_name, checks) ==
    /\ table_config' = CHOOSE config \in ConfigsNamed(table_configs, table_name) : TRUE
    /\ sheet' = CHOOSE cells \in SheetsNamed(file, table_config'.sheet_name) : TRUE
    /\ config_checks' = checks
    /\ data' = NoFrame
    /\ error' = NoError
    /\ started' = <<>>
    /\ pc' = IF checks THEN "check_rows" ELSE "read"

\* the exception of get_table for a name without a config: a ValueError that
\* suggests the closest name; without any config to suggest, extractOne
\* gives None and the subscript raises TypeError
NoSuchTable(configs) == Exception(IF configs = <<>> THEN "TypeError" ELSE "ValueError")

\* Parser(file_path, user_config_directory_path)
ConstructParser ==
    /\ pc = "parser_new"
    /\ LET loaded == load_config(file, config_dict, 1)
       IN  IF loaded.error = NoError
           THEN /\ pc' = "parser"
                /\ error' = NoError
                /\ table_configs' = loaded.configs
                /\ table_names_by_sheet' = get_table_names_by_sheet(loaded.configs)
           ELSE /\ pc' = "no_parser"
                /\ error' = loaded.error
                /\ UNCHANGED <<table_configs, table_names_by_sheet>>
    /\ UNCHANGED <<file, config_dict, directory, request, text, results, sheet, table_config,
                   config_checks, data, started, calls, returned>>

\* workbook.get_table(table_name, config_checks) is called
GetTable(table_name, checks) ==
    /\ pc = "parser"
    /\ LET req == [by |-> "get_table", table_name |-> table_name, tables |-> TableList(<<>>),
                   config_checks |-> checks, pending |-> <<>>]
       IN  IF ConfigsNamed(table_configs, table_name) = {}
           THEN /\ Ends(req, NoFrame, NoSuchTable(table_configs), <<>>)
                /\ error' = NoSuchTable(table_configs)
                /\ UNCHANGED <<sheet, table_config, config_checks, data, started>>
           ELSE /\ request' = req
                /\ results' = <<>>
                /\ Enters(table_name, checks)
    /\ UNCHANGED <<file, config_dict, table_configs, table_names_by_sheet, directory, text,
                   calls, returned>>

\* get_table returns what get_table_from_config returned, or its exception
\* leaves get_table
GetTableEnds ==
    /\ pc \in {"done", "raised"}
    /\ request.by = "get_table"
    /\ Ends(request, IF pc = "done" THEN data ELSE NoFrame, error, <<>>)
    /\ UNCHANGED <<file, config_dict, table_configs, table_names_by_sheet, directory, text,
                   sheet, table_config, config_checks, data, error, started, calls, returned>>

\* workbook.save_tables(directory, tables, config_checks) is called: the
\* checks of its arguments, then the loop over the table names
SaveTables(tables, checks) ==
    /\ pc = "parser"
    /\ LET names == IF tables.str
                    THEN [i \in 1..Len(table_configs) |-> table_configs[i].name]
                    ELSE tables.names
           req   == [by |-> "save_tables", table_name |-> "", tables |-> tables,
                     config_checks |-> checks, pending |-> names]
       IN  IF ~directory.is_dir \/ (tables.str /\ tables.value # "all")
           THEN /\ Ends(req, NoFrame, Exception("ValueError"), names)
                /\ error' = Exception("ValueError")
           ELSE /\ request' = req
                /\ results' = <<>>
                /\ pc' = "next_table"
                /\ error' = NoError
    /\ UNCHANGED <<file, config_dict, table_configs, table_names_by_sheet, directory, text,
                   sheet, table_config, config_checks, data, started, calls, returned>>

\* for table_name in tables: table = self.get_table(table_name, ...)
NextTable ==
    /\ pc = "next_table"
    /\ IF request.pending = <<>>
       THEN /\ Ends(request, NoFrame, NoError, <<>>)
            /\ UNCHANGED <<sheet, table_config, config_checks, data, error, started>>
       ELSE IF ConfigsNamed(table_configs, Head(request.pending)) = {}
       THEN /\ Ends(request, NoFrame, NoSuchTable(table_configs), Tail(request.pending))
            /\ error' = NoSuchTable(table_configs)
            /\ UNCHANGED <<sheet, table_config, config_checks, data, started>>
       ELSE /\ Enters(Head(request.pending), request.config_checks)
            /\ UNCHANGED <<request, results>>
    /\ UNCHANGED <<file, config_dict, table_configs, table_names_by_sheet, directory, text,
                   calls, returned>>

\* table.to_csv(save_path, index=False)
TableToCsv ==
    /\ pc = "done"
    /\ request.by = "save_tables"
    /\ directory' = [directory EXCEPT !.files = @ \cup {Head(request.pending)}]
    /\ request' = [request EXCEPT !.pending = Tail(@)]
    /\ pc' = "next_table"
    /\ UNCHANGED <<file, config_dict, table_configs, table_names_by_sheet, text, results,
                   sheet, table_config, config_checks, data, error, started, calls, returned>>

\* the exception of get_table leaves the loop and save_tables
SaveTablesRaises ==
    /\ pc = "raised"
    /\ request.by = "save_tables"
    /\ Ends(request, NoFrame, error, Tail(request.pending))
    /\ UNCHANGED <<file, config_dict, table_configs, table_names_by_sheet, directory, text,
                   sheet, table_config, config_checks, data, error, started, calls, returned>>

\* a sheet with the table of the rows 4..7 and nothing below it, and one
\* with another row of data below the table
TableOnSheet == TableSheet("A_B", "A_B", "KLM", "num_num", "num_num", "num_num", "blank")

LongerTableOnSheet == TableSheet("A_B", "A_B", "KLM", "num_num", "num_num", "num_num", "num_num")

WorkbookSheet(sheet_name, cells) == [sheet_name |-> sheet_name, cells |-> cells]

Workbooks ==
    { <<WorkbookSheet(<<"S">>, TableOnSheet), WorkbookSheet(<<"T">>, LongerTableOnSheet)>>,
      <<WorkbookSheet(<<"s">>, TableOnSheet), WorkbookSheet(<<"T">>, LongerTableOnSheet)>>,
      <<WorkbookSheet(<<"S">>, TableOnSheet), WorkbookSheet(<<"s">>, LongerTableOnSheet),
        WorkbookSheet(<<"T">>, LongerTableOnSheet)>> }

\* the TableConfig of a name on a sheet for the table of the rows 4..7
ConfigOn(name, sheet_name) ==
    [Config(HeaderInt(4), 7, 2, 4, NoSkip, NoMerged, TRUE)
        EXCEPT !.name = name, !.sheet_name = sheet_name]

ConfigDicts ==
    { <<ConfigOn("a", sa), ConfigOn("b", sb)>> :
        sa \in {<<"S">>, <<"s">>, <<"T">>, <<"U">>}, sb \in {<<"S">>, <<"T">>} }

ParserInit ==
    /\ file \in Workbooks
    /\ config_dict \in ConfigDicts
    /\ directory \in {[is_dir |-> TRUE, files |-> {}], [is_dir |-> FALSE, files |-> {}]}
    /\ table_configs = <<>>
    /\ table_names_by_sheet = <<>>
    /\ request = NoRequest
    /\ pc = "parser_new"
    /\ sheet = <<>>
    /\ table_config = Config(HeaderInt(1), 1, 1, 1, NoSkip, NoMerged, FALSE)
    /\ config_checks = FALSE
    /\ data = NoFrame
    /\ error = NoError
    /\ started = <<>>
    /\ calls = 0
    /\ returned = [c \in BOOLEAN |-> NotCalled]
    /\ text = <<>>
    /\ results = <<>>

ParserNext ==
    \/ ConstructParser
    \/ \E table_name \in {"a", "b", "z"}, checks \in BOOLEAN : GetTable(table_name, checks)
    \/ \E tables \in {AllTables, OneName("a"), TableList(<<"a", "b">>), TableList(<<"b", "a">>),
                       TableList(<<"z", "a">>)},
          checks \in BOOLEAN : SaveTables(tables, checks)
    \/ NextTable
    \/ CheckRowsOnSheet
    \/ CheckColumnsOnSheet
    \/ ReadTable
    \/ CheckColumnsUnique
    \/ Sanitise
    \/ Percentages
    \/ CheckTable
    \/ Return
    \/ GetTableEnds
    \/ TableToCsv
    \/ SaveTablesRaises

ParserSpec == ParserInit /\ [][ParserNext]_vars

\* save_tables has ended, after the checks of its arguments let it into its loop
SaveTablesEnded ==
    /\ results # <<>>
    /\ results[1].by = "save_tables"
    /\ directory.is_dir
    /\ ~(results[1].tables.str /\ results[1].tables.value # "all")

\* C23: in a batch extraction (save_tables over a list of names or "all") the
\* failure of one table never aborts the batch: when save_tables has ended,
\* its loop has come to every requested table, so no requested table is left
\* without its extraction after a table that failed.
C23_FailureNeverAbortsTheBatch == SaveTablesEnded => results[1].left = <<>>

\* the sheets of the workbook whose name is the config's but for the case
SheetsMatching(config) ==
    {j \in 1..Len(file) : lower(file[j].sheet_name) = lower(config.sheet_name)}

\* the sheets of the workbook of exactly a name
SheetsOfName(sheet_name) == {j \in 1..Len(file) : file[j].sheet_name = sheet_name}

ParserConstructed == pc \notin {"parser_new", "no_parser"}

\* C24: once the Parser is constructed, the sheet_name of every loaded
\* TableConfig is exactly the name of one sheet of the workbook, the one the
\* name given in the config matches but for the case; when the sheet name of
\* a config matches no sheet of the workbook, or more than one, construction
\* raises TableConfigError and there is no Parser, and only then.
C24_LoadedSheetNamesAreWorkbookSheets ==
    /\ ParserConstructed =>
        /\ Len(table_configs) = Len(config_dict)
        /\ \A i \in 1..Len(table_configs) :
            /\ Cardinality(SheetsOfName(table_configs[i].sheet_name)) = 1
            /\ SheetsOfName(table_configs[i].sheet_name) = SheetsMatching(config_dict[i])
            /\ table_configs[i].name = config_dict[i].name
    /\ pc = "no_parser" =>
        /\ error.type = "TableConfigError"
        /\ table_configs = <<>>
        /\ \E i \in 1..Len(config_dict) : Cardinality(SheetsMatching(config_dict[i])) # 1
    /\ (pc # "parser_new"
            /\ \E i \in 1..Len(config_dict) : Cardinality(SheetsMatching(config_dict[i])) # 1)
        => pc = "no_parser"

\* a Parser whose config named the sheet "S" of a workbook with a sheet "s"
C24_Witness ==
    /\ ParserConstructed
    /\ config_dict[1].sheet_name = <<"S">>
    /\ table_configs[1].sheet_name = <<"s">>

\* read_table has just returned the table of a header of several rows
MultiRowHeaderRead == pc = "unique" /\ ~table_config.header_rows.int

\* the fragments read_table holds for the i-th column, from the top header
\* row to the last: the filled top label, then the i-th element of each of
\* its filled_headers
HeaderFragments(i) ==
    LET rows == table_config.header_rows.rows
        read == read_excel(sheet, rows[1] - 1, table_config.column_range.first,
                           table_config.column_range.last, table_config.end_row - rows[1])
        df_initial == Frame(column_name_sanitiser(read.df.columns), read.df.rows)
        top    == ffill_highest_header(df_initial.columns)
        filled == FilledHeaders(df_initial, MaskUnnamed(df_initial.columns), top,
                                rows[Len(rows)] - rows[1])
    IN  <<top[i].s>> \o [k \in 1..Len(filled) |-> filled[k][i].s]

\* the fragments that are not blank, joined by "_"
RECURSIVE JoinedBySeparator(_)
JoinedBySeparator(fragments) ==
    IF fragments = <<>> THEN <<>>
    ELSE LET rest == JoinedBySeparator(Tail(fragments))
         IN  IF Head(fragments) = <<>> THEN rest
             ELSE IF rest = <<>> THEN Head(fragments)
             ELSE Head(fragments) \o <<"_">> \o rest

\* C25: the name read_table gives a column under a multi-row header is its
\* non-blank fragments, top row first, joined by "_": it neither begins nor
\* ends with "_" and holds no two "_" in a row, also when the column has no
\* label in or left of it in the top row and a lower row has one.
C25_NameJoinsTheNonBlankFragments ==
    MultiRowHeaderRead =>
        \A i \in 1..Len(data.columns) :
            LET name == data.columns[i].s
            IN  /\ name = JoinedBySeparator(HeaderFragments(i))
                /\ name # <<>> => name[1] # "_" /\ name[Len(name)] # "_"
                /\ \A k \in 1..(Len(name) - 1) : ~(name[k] = "_" /\ name[k + 1] = "_")

\* the header rows below the top one as read_table reads them, blank cells
\* as NA: the k-th row below the top row
HeaderRowBelowTop(k) ==
    LET rows == table_config.header_rows.rows
    IN  [i \in 1..(table_config.column_range.last - table_config.column_range.first + 1) |->
            LET v == sheet[rows[1] + k][table_config.column_range.first + i - 1].v
            IN  IF EmptyForPandas(v) THEN NA ELSE v]

\* how many header rows lie between the first and the last
IntermediateRows ==
    LET rows == table_config.header_rows.rows IN rows[Len(rows)] - rows[1] - 1

\* the columns left of the i-th with a label in the k-th row below the top
LabelsToTheLeft(k, i) == {j \in 1..(i - 1) : ~isna(HeaderRowBelowTop(k)[j])}

\* C26: in every intermediate header row a blank cell inherits the nearest
\* label to its left in that row, as in the top row, and in every column,
\* the first included, a cell that repeats the value directly above it in
\* the preceding header row gives a blank fragment.
C26_IntermediateRowsFilledAndCollapsed ==
    MultiRowHeaderRead =>
        \A k \in 1..IntermediateRows : \A i \in 1..Len(data.columns) :
            LET cell     == HeaderRowBelowTop(k)[i]
                above    == HeaderRowBelowTop(k - 1)[i]
                fragment == HeaderFragments(i)[k + 1]
            IN  /\ (isna(cell) /\ LabelsToTheLeft(k, i) # {}) =>
                        fragment = column_name_sanitiser_text(
                                       astype_str(HeaderRowBelowTop(k)[Max(LabelsToTheLeft(k, i))]))
                /\ (~isna(cell) /\ cell = above) => fragment = <<>>

\* how many header rows lie below the top one
RowsBelowTop == LET rows == table_config.header_rows.rows IN rows[Len(rows)] - rows[1]

\* C27: the last header row is never forward-filled: a blank cell of it adds
\* no fragment to the name of its column, and a cell with a value gives a
\* blank fragment exactly when it equals the cell directly above it in the
\* preceding header row as the sheet holds it (not a label filled into that
\* column from the left, not a cell already collapsed); otherwise its
\* sanitised label is the fragment.
C27_LastRowComparedWithTheCellAbove ==
    (MultiRowHeaderRead /\ RowsBelowTop >= 1) =>
        \A i \in 1..Len(data.columns) :
            LET cell     == HeaderRowBelowTop(RowsBelowTop)[i]
                above    == HeaderRowBelowTop(RowsBelowTop - 1)[i]
                fragment == HeaderFragments(i)[RowsBelowTop + 1]
            IN  fragment = IF isna(cell) \/ cell = above THEN <<>>
                           ELSE column_name_sanitiser_text(astype_str(cell))

\* two whitespace characters next to one another in a text
AdjacentWhitespace(s) ==
    \E k \in 1..(Len(s) - 1) : s[k] \in WhiteSpace /\ s[k + 1] \in WhiteSpace

\* C28: after the sanitisation of a column name or of a text value, the name
\* or value holds no two adjacent whitespace characters: a run of two, three,
\* four or more whitespace characters has become a single space.
C28_NoAdjacentWhitespaceLeft ==
    \A k \in 1..Len(results) :
        (results[k].by \in {"column_name_sanitiser", "values_casting_and_sanitisation"}
            /\ isstr(results[k].value))
        => ~AdjacentWhitespace(results[k].value.s)

StepsInOrder ==
    <<"check_if_header_row_and_end_row_are_on_sheet",
      "check_if_start_and_end_column_are_on_sheet",
      "read_table", "check_columns_unique", "values_casting_and_sanitisation",
      "postprocess_percentage_columns_between_0_and_100", "check_table">>
        \o ChecksOfCheckTable

\* what each check makes of the sheet, the config and the table, taken on its
\* own: the two extent checks, the check of the column names, then the seven
\* checks of _check_table
ChecksOnTheirOwn ==
    [n \in 1..Len(StepsInOrder) |->
        IF n = 1 THEN check_if_header_row_and_end_row_are_on_sheet(sheet, table_config)
        ELSE IF n = 2 THEN check_if_start_and_end_column_are_on_sheet(sheet, table_config)
        ELSE IF n = 4 THEN check_columns_unique(data, table_config.name)
        ELSE IF n >= 8 THEN CheckTableCalls(sheet, data, table_config)[n - 7]
        ELSE NoError]

\* the steps that are checks
IsCheck(n) == n \in {1, 2, 4} \cup 8..Len(StepsInOrder)

====
